---- MODULE Spec2Model ----
(***************************************************************************)
(* Verification model of ariadne:                                          *)
(*   - AgentRunner.ReAct (packages/ariadne/src/AgentRunner.ts): the        *)
(*     multi-turn loop around generateText / generateObject / streamText;  *)
(*   - DedalusLanguageModel (packages/dedalus-labs/src): makeResponse,     *)
(*     makeStreamResponse and resolveFinishReason.                         *)
(* Each component has its own specification over its own variables; the    *)
(* variables of the other components stay at their idle values.            *)
(***************************************************************************)
EXTENDS Integers, Sequences, FiniteSets, TLC

(***************************************************************************)
(* Bounds of the model and program constants                               *)
(***************************************************************************)
\* largest explicitly configured Config.maxTurns explored
MaxTurnsBound == 3

\* longest message.tool_calls / tools_executed list of a wire response
MaxToolCalls == 2
MaxToolsExecuted == 2

\* most SSE chunks delivered on one stream
MaxChunks == 4
MaxExecutions == 2

\* `config?.maxTurns ?? 10`
DefaultMaxTurns == 10

Undefined == "undefined"
Null == "null"

(***************************************************************************)
(* State                                                                   *)
(***************************************************************************)
VARIABLES
    \* ---- AgentRunner.ReAct: one top-level call ----
    op,               \* which capability the caller invoked
    config,           \* Config.maxTurns (<<>> when not configured)
    prompt,           \* Prompt.make(options.prompt), the caller's prompt
    history,          \* Ref<Prompt>
    turns,            \* let turns = 0
    allContent,       \* accumulated parts (generateText / generateObject)
    finalValue,       \* generateObject: last decoded value (<<>> is undefined)
    currentPrompt,    \* prompt read from history for the turn in flight
    accumulatedParts, \* streamText: parts seen on the inner stream
    finishReason,     \* streamText: finish reason seen on the inner stream
    innerStream,      \* streamText: parts the inner stream has yet to emit
    pc,               \* position of the call
    result,           \* parts returned to the caller (generate*), once done
    output,           \* parts emitted to the caller (streamText)
    invocations,      \* log of the underlying capability's invocations
    failure,          \* error the call failed with ("none" otherwise)
    resultValue,      \* generateObject: value returned (<<>> before, or undefined)
    abortedAt,        \* <<k>>: interrupted with turn k in flight (<<0>>: between turns)
    execution,        \* streamText: number of the running execution of the stream
    \* ---- DedalusLanguageModel.makeResponse ----
    response,         \* decoded Generated.ChatCompletion
    parts,            \* parts returned by makeResponse
    respStatus,       \* "idle" | "received" | "done" | "MalformedOutput"
    \* ---- createChatCompletionStream + makeStreamResponse ----
    chunkLog,         \* chunks that passed Stream.takeUntil, in order
    activeToolCalls,  \* Map<index, {id, name, arguments}> in insertion order
    hasEmittedMetadata,
    hasToolCalls,
    events,           \* stream parts emitted so far
    streamStatus,     \* "idle" | "open" | "ended" | "failed"
    streamError,      \* error the stream failed with
    streamCause,      \* what made the stream fail ("none" otherwise)
    \* ---- resolveFinishReason ----
    wireReason,       \* finishReason argument
    wireHasToolCalls, \* hasToolCalls argument
    resolved,         \* value returned ("pending" before the call)
    resolvedInternal, \* value returned by the internal utility, same arguments
    \* ---- DedalusLanguageModel generateText / streamText: one call ----
    callOp,           \* "idle" | "generateText" | "streamText"
    providerOptions,  \* LanguageModel.ProviderOptions of the call
    modelOptions,     \* options.config of DedalusLanguageModel.make
    contextOptions,   \* Config service found in the context
    request,          \* request built by makeRequest (None before)
    transportCalls,   \* requests handed to the transport
    httpOutcome,      \* what the transport came back with (None before)
    callStatus,       \* "idle" | "start" | "built" | "inflight" | "responded"
                      \* | "streaming" | "failed"
    callError         \* AiError of a failed call ("none" otherwise)

reactVars == <<op, config, prompt, history, turns, allContent, finalValue,
               currentPrompt, accumulatedParts, finishReason, innerStream,
               pc, result, output, invocations, failure, resultValue,
               abortedAt, execution>>

respVars == <<response, parts, respStatus>>

streamVars == <<chunkLog, activeToolCalls, hasEmittedMetadata, hasToolCalls,
                events, streamStatus, streamError, streamCause>>

finishVars == <<wireReason, wireHasToolCalls, resolved, resolvedInternal>>

callVars == <<callOp, providerOptions, modelOptions, contextOptions, request,
              transportCalls, httpOutcome, callStatus, callError>>

vars == <<reactVars, respVars, streamVars, finishVars, callVars>>

(***************************************************************************)
(* Response parts and prompts                                              *)
(***************************************************************************)
FinishReasons == {"stop", "length", "content-filter", "tool-calls", "error", "unknown"}

\* Response.makePart(type, ...): id ties a part to the invocation that made it
Part(type, reason, id, pe) ==
    [type |-> type, reason |-> reason, id |-> id, providerExecuted |-> pe]

TextPart(k) == Part("text", "none", k, FALSE)
ToolResultPart(k) == Part("tool-result", "none", k, FALSE)
FinishPart(r, k) == Part("finish", r, k, FALSE)

\* contents the underlying capability may return on its k-th invocation
TurnContents(k) ==
    {<<Part("tool-call", "none", k, FALSE), ToolResultPart(k), FinishPart(r, k)>> :
        r \in FinishReasons}
    \cup {<<TextPart(k), FinishPart(r, k), Part("tool-call", "none", k, TRUE)>> :
            r \in FinishReasons}
    \cup {<<TextPart(k)>>}

IsFinish(p) == p.type = "finish"
IsNotFinish(p) == p.type # "finish"

\* GenerateTextResponse.finishReason: reason of the response's finish part
FinishReasonOf(content) ==
    LET fs == SelectSeq(content, IsFinish)
    IN IF Len(fs) = 0 THEN "unknown" ELSE fs[1].reason

\* usage.totalTokens reported by the finish part of one turn
FinishTotalTokens == 20

\* GenerateTextResponse.usage.totalTokens: that of the response's finish part,
\* undefined when the response holds none
UsageTotalTokens(content) ==
    LET fs == SelectSeq(content, IsFinish)
    IN IF Len(fs) = 0 THEN <<>> ELSE <<FinishTotalTokens>>

\* Prompt messages
Message(role, ps) == [role |-> role, parts |-> ps]
UserText == [type |-> "text", id |-> 0, providerExecuted |-> FALSE]
UserMessage == Message("user", <<UserText>>)

CallerPrompts == {<<UserMessage>>, <<Message("system", <<UserText>>), UserMessage>>}

\* Prompt.merge: concatenation of the two prompts' messages
PromptMerge(a, b) == a \o b

MapParts(s) ==
    [i \in 1..Len(s) |->
        [type |-> s[i].type, id |-> s[i].id, providerExecuted |-> s[i].providerExecuted]]

\* Prompt.fromResponseParts: an assistant message with the text / tool-call
\* parts and a tool message with the tool-result parts; empty when neither
fromResponseParts(ps) ==
    LET a == MapParts(SelectSeq(ps, LAMBDA p : p.type \in {"text", "tool-call"}))
        t == MapParts(SelectSeq(ps, LAMBDA p : p.type = "tool-result"))
    IN (IF Len(a) > 0 THEN <<Message("assistant", a)>> ELSE <<>>)
       \o (IF Len(t) > 0 THEN <<Message("tool", t)>> ELSE <<>>)

(***************************************************************************)
(* AgentRunner.ReAct                                                       *)
(***************************************************************************)
maxTurns_NoDefault == IF config = <<>> THEN MaxTurnsBound ELSE config[1]

\* const maxTurns = config?.maxTurns ?? 10
maxTurns == IF config = <<>> THEN DefaultMaxTurns ELSE config[1]

shouldTerminate_NoUnknown(reason) ==
    \/ reason = "stop"
    \/ reason = "length"
    \/ reason = "content-filter"
    \/ reason = "error"

shouldTerminate(reason) ==
    \/ reason = "stop"
    \/ reason = "length"
    \/ reason = "content-filter"
    \/ reason = "error"
    \/ reason = "unknown"

excludeFinishParts_Keep(content) == content
excludeFinishParts(content) == SelectSeq(content, IsNotFinish)

\* while (turns < maxTurns)
BudgetReached_Strict(t, m) == t > m

\* loop exit of `while (turns < maxTurns)`; `if (turns >= maxTurns)` of runTurn
BudgetReached(t, m) == t >= m

LoopGuard_Inclusive(t, m) == t <= m
LoopGuard(t, m) == t < m

\* allContent = [...allContent, ...response.content] on a terminating turn,
\* [...allContent, ...excludeFinishParts(response.content)] otherwise
Accumulate_Replace(acc, content, terminate) ==
    IF terminate THEN content ELSE acc \o excludeFinishParts(content)

Accumulate(acc, content, terminate) ==
    IF terminate THEN acc \o content ELSE acc \o excludeFinishParts(content)

\* Prompt.merge(currentPrompt, Prompt.fromResponseParts(parts))
NextHistory_Swapped(cur, ps) == PromptMerge(fromResponseParts(ps), cur)
NextHistory(cur, ps) == PromptMerge(cur, fromResponseParts(ps))

\* one logged invocation of the underlying capability: the prompt it was
\* given, the content it produced (<<>> while the answer is awaited) and the
\* error it failed with ("none" when it did not fail)
Invocation(p, c) == [prompt |-> p, content |-> c, error |-> "none"]

\* AiError tags the underlying capability can fail with
AiErrors == {"HttpResponseError", "MalformedOutput"}

\* `yield* underlying.generateText(...)` and Stream.concat(innerStream, ...)
\* have no catch: a failure of the turn ends the call with the same error
AfterFailure_Retry == "loop"
AfterFailure == "failed"

\* the value decoded by the k-th invocation of underlying.generateObject
ValueOfTurn(k) == <<k>>

LastValue_KeepFirst(prev, v) == IF prev = <<>> THEN v ELSE prev

\* finalValue = response.value
LastValue(prev, v) == v

\* Stream.concat(innerStream, Stream.unwrap(continueOrEnd)): continueOrEnd
\* runs when the inner stream has ended
Drained_Eager(s) == TRUE
Drained(s) == s = <<>>

\* the inner stream's parts are the output's parts: Stream.tap forwards them
Forward_ExcludeFinish(p) == IF p.type = "finish" THEN <<>> ELSE <<p>>
Forward(p) == <<p>>

ReActIdle ==
    /\ op = "idle"
    /\ config = <<>>
    /\ prompt = <<>>
    /\ history = <<>>
    /\ turns = 0
    /\ allContent = <<>>
    /\ finalValue = <<>>
    /\ currentPrompt = <<>>
    /\ accumulatedParts = <<>>
    /\ finishReason = "unknown"
    /\ innerStream = <<>>
    /\ pc = "idle"
    /\ result = <<>>
    /\ output = <<>>
    /\ invocations = <<>>
    /\ failure = "none"
    /\ resultValue = <<>>
    /\ abortedAt = <<>>
    /\ execution = 0

ReActInit ==
    /\ op \in {"generateText", "generateObject", "streamText"}
    \* the Config service: <<>> when maxTurns is not configured, <<n>> otherwise
    /\ config \in {<<>>} \cup {<<n>> : n \in 0..MaxTurnsBound}
    /\ prompt \in CallerPrompts
    /\ history = prompt
    /\ turns = 0
    /\ allContent = <<>>
    /\ finalValue = <<>>
    /\ currentPrompt = <<>>
    /\ accumulatedParts = <<>>
    /\ finishReason = "unknown"
    /\ innerStream = <<>>
    /\ pc = "loop"
    /\ result = <<>>
    /\ output = <<>>
    /\ invocations = <<>>
    /\ failure = "none"
    /\ resultValue = <<>>
    /\ abortedAt = <<>>
    /\ execution = 1

\* generateText / generateObject: loop head up to the suspension on
\* `yield* underlying.generateText(...)`
GenerateInvoke ==
    /\ op \in {"generateText", "generateObject"}
    /\ pc = "loop"
    /\ LoopGuard(turns, maxTurns)
    /\ turns' = turns + 1
    /\ currentPrompt' = history
    /\ invocations' = Append(invocations, Invocation(history, <<>>))
    /\ pc' = "await"
    /\ UNCHANGED <<op, config, prompt, abortedAt, execution, resultValue, history, allContent, finalValue,
                   accumulatedParts, finishReason, innerStream, result, output,
                   failure>>
    /\ UNCHANGED <<respVars, streamVars, finishVars, callVars>>

\* the underlying capability answers; rest of the loop body
GenerateRespond ==
    /\ op \in {"generateText", "generateObject"}
    /\ pc = "await"
    /\ \E content \in TurnContents(Len(invocations)) :
        LET terminate == shouldTerminate(FinishReasonOf(content))
            acc == Accumulate(allContent, content, terminate)
        IN /\ invocations' = [invocations EXCEPT ![Len(invocations)].content = content]
           /\ finalValue' = IF op = "generateObject"
                            THEN LastValue(finalValue, ValueOfTurn(Len(invocations)))
                            ELSE finalValue
           /\ allContent' = acc
           /\ IF terminate
              THEN /\ result' = acc
                   /\ resultValue' = finalValue'
                   /\ pc' = "done"
                   /\ UNCHANGED history
              ELSE /\ history' = NextHistory(currentPrompt, content)
                   /\ pc' = "loop"
                   /\ UNCHANGED <<result, resultValue>>
    /\ UNCHANGED <<op, config, prompt, abortedAt, execution, turns, currentPrompt, accumulatedParts,
                   finishReason, innerStream, output, failure>>
    /\ UNCHANGED <<respVars, streamVars, finishVars, callVars>>

\* the underlying capability fails: the error propagates, nothing is returned
GenerateFail ==
    /\ op \in {"generateText", "generateObject"}
    /\ pc = "await"
    /\ \E e \in AiErrors :
        /\ invocations' = [invocations EXCEPT ![Len(invocations)].error = e]
        /\ failure' = e
    /\ pc' = AfterFailure
    /\ UNCHANGED <<op, config, prompt, abortedAt, execution, resultValue, history, turns, allContent, finalValue,
                   currentPrompt, accumulatedParts, finishReason, innerStream,
                   result, output>>
    /\ UNCHANGED <<respVars, streamVars, finishVars, callVars>>

\* loop exit: return new GenerateTextResponse(allContent)
GenerateReturn ==
    /\ op \in {"generateText", "generateObject"}
    /\ pc = "loop"
    /\ BudgetReached(turns, maxTurns)
    /\ result' = allContent
    /\ resultValue' = finalValue
    /\ pc' = "done"
    /\ UNCHANGED <<op, config, prompt, abortedAt, execution, history, turns, allContent, finalValue,
                   currentPrompt, accumulatedParts, finishReason, innerStream,
                   output, invocations, failure>>
    /\ UNCHANGED <<respVars, streamVars, finishVars, callVars>>

\* streamText.runTurn with turns >= maxTurns: Stream.empty
RunTurnEmpty ==
    /\ op = "streamText"
    /\ pc = "loop"
    /\ BudgetReached(turns, maxTurns)
    /\ pc' = "done"
    /\ UNCHANGED <<op, config, prompt, abortedAt, execution, resultValue, history, turns, allContent, finalValue,
                   currentPrompt, accumulatedParts, finishReason, innerStream,
                   result, output, invocations, failure>>
    /\ UNCHANGED <<respVars, streamVars, finishVars, callVars>>

InitialFinishReason_ToolCalls == "tool-calls"

\* let finishReason: Response.FinishReason = "unknown"
InitialFinishReason == "unknown"

\* streamText.runTurn: open the inner stream of the next turn
RunTurn ==
    /\ op = "streamText"
    /\ pc = "loop"
    /\ LoopGuard(turns, maxTurns)
    /\ turns' = turns + 1
    /\ currentPrompt' = history
    /\ accumulatedParts' = <<>>
    /\ finishReason' = InitialFinishReason
    /\ \E content \in TurnContents(Len(invocations) + 1) :
        /\ innerStream' = content
        /\ invocations' = Append(invocations, Invocation(history, content))
    /\ pc' = "streaming"
    /\ UNCHANGED <<op, config, prompt, abortedAt, execution, resultValue, history, allContent, finalValue,
                   result, output, failure>>
    /\ UNCHANGED <<respVars, streamVars, finishVars, callVars>>

\* one part of the inner stream: Stream.tap records it, then it is forwarded
StreamPart ==
    /\ op = "streamText"
    /\ pc = "streaming"
    /\ innerStream # <<>>
    /\ LET part == Head(innerStream)
       IN /\ accumulatedParts' = Append(accumulatedParts, part)
          /\ finishReason' = IF part.type = "finish" THEN part.reason ELSE finishReason
          /\ output' = output \o Forward(part)
    /\ innerStream' = Tail(innerStream)
    /\ UNCHANGED <<op, config, prompt, abortedAt, execution, resultValue, history, turns, allContent, finalValue,
                   currentPrompt, pc, result, invocations, failure>>
    /\ UNCHANGED <<respVars, streamVars, finishVars, callVars>>

\* the inner stream fails before it is drained: the turn produced only the
\* parts emitted so far
StreamFail ==
    /\ op = "streamText"
    /\ pc = "streaming"
    /\ innerStream # <<>>
    /\ \E e \in AiErrors :
        /\ invocations' = [invocations EXCEPT
                              ![Len(invocations)].content = accumulatedParts,
                              ![Len(invocations)].error = e]
        /\ failure' = e
    /\ pc' = AfterFailure
    /\ UNCHANGED <<op, config, prompt, abortedAt, execution, resultValue, history, turns, allContent, finalValue,
                   currentPrompt, accumulatedParts, finishReason, innerStream,
                   result, output>>
    /\ UNCHANGED <<respVars, streamVars, finishVars, callVars>>

AfterAbort_Continue == "loop"

\* an interrupted yield* never resumes the generator, and an interrupted
\* Stream.concat never runs its second stream
AfterAbort == "aborted"

\* the fiber running the overarching call is interrupted: between turns, while
\* underlying.generateText / generateObject is awaited, or while the inner
\* stream of the current turn is consumed
Abort ==
    /\ pc \in {"loop", "await", "streaming"}
    /\ abortedAt' = IF pc = "loop" THEN <<0>> ELSE <<turns>>
    /\ invocations' =
          IF pc = "loop" THEN invocations
          ELSE [invocations EXCEPT
                  \* the parts that reached the runner before the interruption
                  ![Len(invocations)].content =
                        IF pc = "streaming" THEN accumulatedParts ELSE @]
    /\ pc' = AfterAbort
    /\ UNCHANGED <<op, config, prompt, execution, resultValue, history, turns,
                   allContent, finalValue, currentPrompt, accumulatedParts,
                   finishReason, innerStream, result, output, failure>>
    /\ UNCHANGED <<respVars, streamVars, finishVars, callVars>>

\* the stream value returned by streamText is run again (Stream.retry, a second
\* consumer): runTurn() was evaluated once, so the new execution runs the same
\* Stream.unwrap(Effect.gen(...)) over the `history` Ref and the `turns`
\* variable created when streamText was called
ReExecute ==
    /\ op = "streamText"
    /\ pc \in {"done", "failed"}
    /\ execution < MaxExecutions
    /\ execution' = execution + 1
    /\ pc' = "loop"
    /\ output' = <<>>
    /\ failure' = "none"
    \* the locals of the previous execution's turns are gone, and the log
    \* observes the new execution
    /\ currentPrompt' = <<>>
    /\ accumulatedParts' = <<>>
    /\ finishReason' = "unknown"
    /\ innerStream' = <<>>
    /\ invocations' = <<>>
    /\ UNCHANGED <<op, config, prompt, abortedAt, resultValue, history, turns,
                   allContent, finalValue, result>>
    /\ UNCHANGED <<respVars, streamVars, finishVars, callVars>>

\* streamObject: underlying.streamObject(options), whatever maxTurns is
StreamObjectOpen ==
    /\ op = "streamObject"
    /\ pc = "loop"
    /\ \E content \in TurnContents(Len(invocations) + 1) :
        /\ innerStream' = content
        /\ invocations' = Append(invocations, Invocation(prompt, content))
    /\ pc' = "forwarding"
    /\ UNCHANGED <<op, config, prompt, abortedAt, execution, resultValue, history,
                   turns, allContent, finalValue, currentPrompt, accumulatedParts,
                   finishReason, result, output, failure>>
    /\ UNCHANGED <<respVars, streamVars, finishVars, callVars>>

\* streamObject: one part of the underlying stream reaches the caller
StreamObjectPart ==
    /\ op = "streamObject"
    /\ pc = "forwarding"
    /\ innerStream # <<>>
    /\ output' = Append(output, Head(innerStream))
    /\ innerStream' = Tail(innerStream)
    /\ UNCHANGED <<op, config, prompt, abortedAt, execution, resultValue, history,
                   turns, allContent, finalValue, currentPrompt, accumulatedParts,
                   finishReason, pc, result, invocations, failure>>
    /\ UNCHANGED <<respVars, streamVars, finishVars, callVars>>

\* streamObject: the underlying stream fails before it has ended
StreamObjectFail ==
    /\ op = "streamObject"
    /\ pc = "forwarding"
    /\ innerStream # <<>>
    /\ \E e \in AiErrors :
        /\ invocations' = [invocations EXCEPT
                              ![Len(invocations)].content = output,
                              ![Len(invocations)].error = e]
        /\ failure' = e
    /\ pc' = "failed"
    /\ UNCHANGED <<op, config, prompt, abortedAt, execution, resultValue, history,
                   turns, allContent, finalValue, currentPrompt, accumulatedParts,
                   finishReason, innerStream, result, output>>
    /\ UNCHANGED <<respVars, streamVars, finishVars, callVars>>

AfterObjectStream_Loop == "loop"

\* the stream returned by streamObject is the underlying stream, with nothing
\* after it
AfterObjectStream == "done"

\* streamObject: the underlying stream ends
StreamObjectEnd ==
    /\ op = "streamObject"
    /\ pc = "forwarding"
    /\ innerStream = <<>>
    /\ pc' = AfterObjectStream
    /\ UNCHANGED <<op, config, prompt, abortedAt, execution, resultValue, history,
                   turns, allContent, finalValue, currentPrompt, accumulatedParts,
                   finishReason, innerStream, result, output, invocations, failure>>
    /\ UNCHANGED <<respVars, streamVars, finishVars, callVars>>

\* continueOrEnd, run once the inner stream is drained
ContinueOrEnd ==
    /\ op = "streamText"
    /\ pc = "streaming"
    /\ Drained(innerStream)
    /\ IF ~shouldTerminate(finishReason)
       THEN /\ history' = NextHistory(history, accumulatedParts)
            /\ pc' = "loop"
       ELSE /\ pc' = "done"
            /\ UNCHANGED history
    /\ UNCHANGED <<op, config, prompt, abortedAt, execution, resultValue, turns, allContent, finalValue,
                   currentPrompt, accumulatedParts, finishReason, innerStream,
                   result, output, invocations, failure>>
    /\ UNCHANGED <<respVars, streamVars, finishVars, callVars>>

(***************************************************************************)
(* DedalusLanguageModel: wire values                                       *)
(***************************************************************************)
None == <<>>
Some(x) == <<x>>
IsSome(o) == Len(o) > 0
Get(o) == o[1]

\* JavaScript truthiness of an optional string
Truthy(v) == v \notin {Undefined, Null, ""}

\* Generated.ChoiceFinishReasonEnum
ChoiceFinishReasonEnum == {"stop", "length", "tool_calls", "content_filter", "function_call"}

\* argument strings are sequences of text fragments; concatenation is \o
ArgEmptyObject == <<"{}">>
ArgObjectX == <<"{\"x\":", "1}">>
ArgTruncated == <<"{\"x\":">>
ArgProto == <<"{\"__proto__\":1}">>

\* Tool.unsafeSecureJsonParse: the parsed value, or a failure for text that is
\* not JSON (the empty string included) or that has a prototype-polluting key
unsafeSecureJsonParse(text) ==
    IF text = ArgEmptyObject THEN [ok |-> TRUE, value |-> "object()"]
    ELSE IF text = ArgObjectX THEN [ok |-> TRUE, value |-> "object(x=1)"]
    ELSE [ok |-> FALSE, value |-> "error"]

\* Response.PartEncoded / Response.StreamPartEncoded
EncodedPart(type, id, name, value, reason, pe) ==
    [type |-> type, id |-> id, name |-> name, value |-> value,
     reason |-> reason, providerExecuted |-> pe]

\* IdGenerator.generateId: the n-th generated id
generateId(n) == <<"gen_1", "gen_2", "gen_3", "gen_4", "gen_5", "gen_6">>[n]

resolveFinishReason_IgnoreToolCalls(reason, hasCalls) ==
    CASE reason = "stop" -> "stop"
      [] reason = "length" -> "length"
      [] reason = "content_filter" -> "content-filter"
      [] reason \in {"tool_calls", "function_call"} -> "tool-calls"
      [] OTHER -> IF Truthy(reason) THEN "unknown" ELSE "stop"

resolveFinishReason(reason, hasCalls) ==
    IF hasCalls THEN "tool-calls"
    ELSE CASE reason = "stop" -> "stop"
           [] reason = "length" -> "length"
           [] reason = "content_filter" -> "content-filter"
           [] reason \in {"tool_calls", "function_call"} -> "tool-calls"
           [] OTHER -> IF Truthy(reason) THEN "unknown" ELSE "stop"

\* the internal resolveFinishReason with its finishReasonMap and its
\* Predicate.isNullable tests: a reason found in the map is returned whatever
\* hasToolCalls is
resolveFinishReasonInternal(reason, hasCalls) ==
    IF reason \in {Null, Undefined}
    THEN (IF hasCalls THEN "tool-calls" ELSE "stop")
    ELSE CASE reason = "content_filter" -> "content-filter"
           [] reason = "function_call" -> "tool-calls"
           [] reason = "length" -> "length"
           [] reason = "stop" -> "stop"
           [] reason = "tool_calls" -> "tool-calls"
           [] OTHER -> IF hasCalls THEN "tool-calls" ELSE "unknown"

(***************************************************************************)
(* makeResponse                                                            *)
(***************************************************************************)
SeqsUpTo(S, n) == UNION {[1..k -> S] : k \in 0..n}

\* message.tool_calls entries (ChatCompletionMessageToolCall / CustomToolCall)
WireToolCall(id, type, name, arguments) ==
    [id |-> id, type |-> type, name |-> name, arguments |-> arguments]

WireToolCalls ==
    {WireToolCall("call_a", "function", "f", a) : a \in {ArgEmptyObject, ArgTruncated, ArgProto}}
    \cup {WireToolCall("call_c", "custom", "mcp", a) : a \in {ArgObjectX, ArgTruncated}}

\* Generated.Choice (index 0)
Choices ==
    [content : {Null, "Hello"},
     refusal : {Null, "no"},
     annotations : {<<>>, <<"url_citation">>, <<"other", "url_citation">>},
     tool_calls : {None} \cup {Some(t) : t \in SeqsUpTo(WireToolCalls, MaxToolCalls)},
     finish_reason : ChoiceFinishReasonEnum \cup {Undefined}]

\* Generated.ChatCompletion
ChatCompletions ==
    [choices : {<<>>} \cup {<<c>> : c \in Choices},
     tools_executed : {None} \cup {Some(t) : t \in SeqsUpTo({"search"}, MaxToolsExecuted)}]

MessageToolCalls(choice) ==
    IF IsSome(choice.tool_calls) THEN Get(choice.tool_calls) ELSE <<>>

IsUrlCitation(a) == a = "url_citation"

\* one source part per url_citation annotation, each with a generated id
SourceParts(annotations) ==
    LET cites == SelectSeq(annotations, IsUrlCitation)
    IN [i \in 1..Len(cites) |->
           EncodedPart("source", generateId(i), "", "url", "none", FALSE)]

\* one tool-call part per function / custom tool call
ToolCallParts(toolCalls) ==
    [i \in 1..Len(toolCalls) |->
        EncodedPart("tool-call", toolCalls[i].id, toolCalls[i].name,
                    unsafeSecureJsonParse(toolCalls[i].arguments).value,
                    "none", FALSE)]

ToolCallsParse(toolCalls) ==
    \A i \in 1..Len(toolCalls) : unsafeSecureJsonParse(toolCalls[i].arguments).ok

\* parts pushed for choices[0]
ChoiceParts(choice) ==
    LET toolCalls == MessageToolCalls(choice)
        hasCalls == Len(toolCalls) > 0
    IN (IF choice.content # Null
        THEN <<EncodedPart("text", "", "", choice.content, "none", FALSE)>>
        ELSE <<>>)
       \o (IF choice.refusal # Null
           THEN <<EncodedPart("text", "", "", "", "none", FALSE)>>
           ELSE <<>>)
       \o SourceParts(choice.annotations)
       \o ToolCallParts(toolCalls)
       \o <<EncodedPart("finish", "", "", "",
                        resolveFinishReason(choice.finish_reason, hasCalls), FALSE)>>

\* server-executed tools: provider-executed tool-call parts with generated ids
ToolsExecutedParts(r, usedIds) ==
    LET names == IF IsSome(r.tools_executed) THEN Get(r.tools_executed) ELSE <<>>
    IN [i \in 1..Len(names) |->
           EncodedPart("tool-call", generateId(usedIds + i), names[i],
                       "object()", "none", TRUE)]

SourceCount(r) ==
    IF Len(r.choices) > 0
    THEN Len(SelectSeq(r.choices[1].annotations, IsUrlCitation))
    ELSE 0

\* the Effect's outcome: the part list, or the MalformedOutput failure
makeResponse(r) ==
    IF Len(r.choices) > 0 /\ ~ToolCallsParse(MessageToolCalls(r.choices[1]))
    THEN [ok |-> FALSE, parts |-> <<>>]
    ELSE [ok |-> TRUE,
          parts |-> <<EncodedPart("response-metadata", "chatcmpl", "", "", "none", FALSE)>>
                    \o (IF Len(r.choices) > 0 THEN ChoiceParts(r.choices[1]) ELSE <<>>)
                    \o ToolsExecutedParts(r, SourceCount(r))]

RespIdle ==
    /\ response = <<>>
    /\ parts = <<>>
    /\ respStatus = "idle"

RespInit ==
    /\ response \in ChatCompletions
    /\ parts = <<>>
    /\ respStatus = "received"

\* generateText: makeResponse(rawResponse, options)
MakeResponse ==
    /\ respStatus = "received"
    /\ LET r == makeResponse(response)
       IN /\ parts' = r.parts
          /\ respStatus' = IF r.ok THEN "done" ELSE "MalformedOutput"
    /\ UNCHANGED <<response, reactVars, streamVars, finishVars, callVars>>

(***************************************************************************)
(* resolveFinishReason as a function of its arguments                      *)
(***************************************************************************)
\* finish_reason strings: the wire enum, the empty string, and reasons other
\* providers report
WireReasonStrings ==
    ChoiceFinishReasonEnum
    \cup {"", "error", "unknown", "tool-calls", "content-filter", "STOP",
          "end_turn", "max_tokens", "stop_sequence", "tool_use", "MAX_TOKENS",
          "SAFETY", "eos", "abort", "cancelled", "refusal", "pause_turn",
          "model_length", "RECITATION"}

FinishIdle ==
    /\ wireReason = Null
    /\ wireHasToolCalls = FALSE
    /\ resolved = "pending"
    /\ resolvedInternal = "pending"

FinishInit ==
    /\ wireReason \in WireReasonStrings \cup {Null, Undefined}
    /\ wireHasToolCalls \in BOOLEAN
    /\ resolved = "pending"
    /\ resolvedInternal = "pending"

ResolveFinishReason ==
    /\ resolved = "pending"
    /\ resolved' = resolveFinishReason(wireReason, wireHasToolCalls)
    /\ UNCHANGED <<wireReason, wireHasToolCalls, resolvedInternal, reactVars,
                   respVars, streamVars, callVars>>

\* the internal resolveFinishReason applied to the same pair of arguments
ResolveFinishReasonInternal ==
    /\ resolvedInternal = "pending"
    /\ resolvedInternal' = resolveFinishReasonInternal(wireReason, wireHasToolCalls)
    /\ UNCHANGED <<wireReason, wireHasToolCalls, resolved, reactVars, respVars,
                   streamVars, callVars>>

(***************************************************************************)
(* createChatCompletionStream + makeStreamResponse                         *)
(***************************************************************************)
\* one element of delta.tool_calls
ToolCallDelta(index, id, name, arguments) ==
    [index |-> index, id |-> id, name |-> name, arguments |-> arguments]

ToolCallDeltas ==
    { ToolCallDelta(0, "call_a", "f", None),
      ToolCallDelta(0, "call_a", "f", Some(ArgEmptyObject)),
      ToolCallDelta(0, Undefined, Undefined, Some(<<"{\"x\":">>)),
      ToolCallDelta(0, Undefined, Undefined, Some(<<"1}">>)),
      ToolCallDelta(0, "", "f", Some(ArgEmptyObject)),
      ToolCallDelta(0, "call_a", "f", Some(<<"1}">>)),
      ToolCallDelta(1, "call_b", Undefined, Some(ArgEmptyObject)),
      ToolCallDelta(1, Undefined, "g", None) }

ToolCallDeltaLists ==
    {<<d>> : d \in ToolCallDeltas}
    \cup {<<ToolCallDelta(0, "call_a", "f", Some(ArgEmptyObject)),
            ToolCallDelta(1, "call_b", "g", Some(ArgEmptyObject))>>}

\* ChatCompletionChunkDelta
ChunkDeltas ==
    {[content |-> "Hi", tool_calls |-> None],
     [content |-> Undefined, tool_calls |-> None]}
    \cup {[content |-> Undefined, tool_calls |-> Some(t)] : t \in ToolCallDeltaLists}

\* ChatCompletionChunkChoice
ChunkChoice(delta, reason) == [delta |-> delta, finish_reason |-> reason]

EmptyDelta == [content |-> Undefined, tool_calls |-> None]

\* ChatCompletionChunk: its choices
Chunks ==
    {<<ChunkChoice(d, r)>> : d \in ChunkDeltas, r \in ChoiceFinishReasonEnum \cup {Null}}
    \cup {<<>>}
    \cup {<<ChunkChoice(EmptyDelta, Null), ChunkChoice(EmptyDelta, "stop")>>}

IsLastChunk_Never(chunk) == FALSE

\* Stream.takeUntil predicate: chunk.choices.some(c => c.finish_reason !== null)
IsLastChunk(chunk) ==
    \E i \in 1..Len(chunk) : chunk[i].finish_reason # Null

\* activeToolCalls: entries in Map insertion order
MapHas(m, index) == \E i \in 1..Len(m) : m[i].index = index
MapGet(m, index) == m[CHOOSE i \in 1..Len(m) : m[i].index = index]
MapSet(m, index, entry) ==
    IF MapHas(m, index)
    THEN [i \in 1..Len(m) |-> IF m[i].index = index THEN entry ELSE m[i]]
    ELSE Append(m, entry)

Entry(index, id, name, arguments) ==
    [index |-> index, id |-> id, name |-> name, arguments |-> arguments]

OrEmpty(v) == IF v \in {Undefined, Null} THEN "" ELSE v

AppendArguments_Replace(buffer, fragment) == fragment

\* toolCall.arguments += toolCallDelta.function.arguments
AppendArguments(buffer, fragment) == buffer \o fragment

\* body of `for (const toolCallDelta of delta.tool_calls)` for one delta;
\* st = [active, parts]
ApplyToolCallDelta(st, d) ==
    LET registered ==
            IF Truthy(d.id)
            THEN [active |-> MapSet(st.active, d.index,
                                    Entry(d.index, d.id, OrEmpty(d.name), <<>>)),
                  parts |-> Append(st.parts,
                                   EncodedPart("tool-params-start", d.id, OrEmpty(d.name),
                                               "", "none", FALSE))]
            ELSE st
    IN IF ~MapHas(registered.active, d.index)
       THEN registered
       ELSE LET e == MapGet(registered.active, d.index)
                named == IF Truthy(d.name) THEN [e EXCEPT !.name = d.name] ELSE e
                hasArgs == IsSome(d.arguments) /\ Get(d.arguments) # <<>>
                filled == IF hasArgs
                          THEN [named EXCEPT
                                    !.arguments = AppendArguments(@, Get(d.arguments))]
                          ELSE named
            IN [active |-> MapSet(registered.active, d.index, filled),
                parts |-> IF hasArgs
                          THEN Append(registered.parts,
                                      EncodedPart("tool-params-delta", e.id, "",
                                                  Get(d.arguments), "none", FALSE))
                          ELSE registered.parts]

RECURSIVE ApplyToolCallDeltas(_, _)
ApplyToolCallDeltas(st, ds) ==
    IF ds = <<>> THEN st
    ELSE ApplyToolCallDeltas(ApplyToolCallDelta(st, Head(ds)), Tail(ds))

\* tool-params-end and tool-call for every pending entry, in Map order
RECURSIVE FinalizeToolCalls(_)
FinalizeToolCalls(active) ==
    IF active = <<>> THEN <<>>
    ELSE LET e == Head(active)
         IN <<EncodedPart("tool-params-end", e.id, "", "", "none", FALSE),
              EncodedPart("tool-call", e.id, e.name,
                          unsafeSecureJsonParse(e.arguments).value, "none", FALSE)>>
            \o FinalizeToolCalls(Tail(active))

PendingParse(active) ==
    \A i \in 1..Len(active) : unsafeSecureJsonParse(active[i].arguments).ok

ClearActive_Keep(active) == active

\* activeToolCalls.clear()
ClearActive(active) == <<>>

EmitMetadata_Always(emitted) == TRUE

\* if (!hasEmittedMetadata)
EmitMetadata(emitted) == ~emitted

\* Stream.mapEffect body of makeStreamResponse for one chunk: the new
\* accumulator state and the parts of the chunk, or the MalformedOutput failure
ProcessChunk(chunk, active, emitted, hadCalls) ==
    LET meta == IF EmitMetadata(emitted)
                THEN <<EncodedPart("response-metadata", "chatcmpl", "", "", "none", FALSE)>>
                ELSE <<>>
    IN IF Len(chunk) = 0
       THEN [ok |-> TRUE, active |-> active, hasToolCalls |-> hadCalls, parts |-> meta]
       ELSE
        LET choice == chunk[1]
            delta == choice.delta
            text == IF delta.content \notin {Null, Undefined}
                    THEN <<EncodedPart("text-delta", "chatcmpl", "", delta.content, "none", FALSE)>>
                    ELSE <<>>
            st == ApplyToolCallDeltas(
                      [active |-> active, parts |-> meta \o text],
                      IF IsSome(delta.tool_calls) THEN Get(delta.tool_calls) ELSE <<>>)
        IN IF choice.finish_reason = Null
           THEN [ok |-> TRUE, active |-> st.active, hasToolCalls |-> hadCalls,
                 parts |-> st.parts]
           ELSE IF ~PendingParse(st.active)
           THEN [ok |-> FALSE, active |-> st.active,
                 hasToolCalls |-> TRUE, parts |-> <<>>]
           ELSE LET calls == hadCalls \/ Len(st.active) > 0
                IN [ok |-> TRUE, active |-> ClearActive(st.active), hasToolCalls |-> calls,
                    parts |-> st.parts
                              \o FinalizeToolCalls(st.active)
                              \o <<EncodedPart("finish", "", "", "",
                                      resolveFinishReason(choice.finish_reason, calls),
                                      FALSE)>>]

catchTags_PassThrough(tag) == tag

\* Effect.catchTags / Stream.catchTags of the client: tags left alone pass
catchTags(tag) ==
    CASE tag = "RequestError" -> "HttpRequestError"
      [] tag = "ResponseError" -> "HttpResponseError"
      [] tag = "ParseError" -> "MalformedOutput"
      [] OTHER -> tag

StreamIdle ==
    /\ chunkLog = <<>>
    /\ activeToolCalls = <<>>
    /\ hasEmittedMetadata = FALSE
    /\ hasToolCalls = FALSE
    /\ events = <<>>
    /\ streamStatus = "idle"
    /\ streamError = "none"
    /\ streamCause = "none"

StreamInit ==
    /\ chunkLog = <<>>
    /\ activeToolCalls = <<>>
    /\ hasEmittedMetadata = FALSE
    /\ hasToolCalls = FALSE
    /\ events = <<>>
    /\ streamStatus = "open"
    /\ streamError = "none"
    /\ streamCause = "none"

\* an SSE frame decodes to a chunk, passes takeUntil and is mapped to parts
StreamChunk ==
    /\ streamStatus = "open"
    /\ Len(chunkLog) < MaxChunks
    /\ \E chunk \in Chunks :
        LET r == ProcessChunk(chunk, activeToolCalls, hasEmittedMetadata, hasToolCalls)
        IN /\ chunkLog' = Append(chunkLog, chunk)
           /\ activeToolCalls' = r.active
           /\ hasToolCalls' = r.hasToolCalls
           /\ hasEmittedMetadata' = TRUE
           /\ events' = events \o r.parts
           /\ streamStatus' = IF ~r.ok THEN "failed"
                              ELSE IF IsLastChunk(chunk) THEN "ended"
                              ELSE "open"
           /\ streamError' = IF ~r.ok THEN "MalformedOutput" ELSE streamError
           /\ streamCause' = IF ~r.ok THEN "unsafeSecureJsonParse" ELSE streamCause
    /\ UNCHANGED <<reactVars, respVars, finishVars, callVars>>

\* the SSE stream ends ([DONE] or end of body) before any finish_reason
StreamEnd ==
    /\ streamStatus = "open"
    /\ streamStatus' = "ended"
    /\ UNCHANGED <<chunkLog, activeToolCalls, hasEmittedMetadata, hasToolCalls,
                   events, streamError, streamCause, reactVars, respVars,
                   finishVars, callVars>>

\* a frame does not decode (ParseError) or the transport fails mid-stream
\* (RequestError, ResponseError); Stream.catchTags maps the failure
StreamError ==
    /\ streamStatus = "open"
    /\ streamStatus' = "failed"
    /\ \E tag \in {"ParseError", "RequestError", "ResponseError"} :
        /\ streamCause' = tag
        /\ streamError' = catchTags(tag)
    /\ UNCHANGED <<chunkLog, activeToolCalls, hasEmittedMetadata, hasToolCalls,
                   events, reactVars, respVars, finishVars, callVars>>

(***************************************************************************)
(* makeRequest: prepareMessages, prepareTools, prepareResponseFormat       *)
(***************************************************************************)
\* Prompt parts of a message handed to the provider
PromptPart(type, text, id, name, value, pe) ==
    [type |-> type, text |-> text, id |-> id, name |-> name, value |-> value,
     providerExecuted |-> pe]

TextOf(t) == PromptPart("text", t, "", "", "", FALSE)
FileOf(mediaType) == PromptPart("file", mediaType, "", "", "", FALSE)
ReasoningOf(t) == PromptPart("reasoning", t, "", "", "", FALSE)
ToolCallOf(id, name, params, pe) == PromptPart("tool-call", "", id, name, params, pe)
ToolResultOf(id, name, res) == PromptPart("tool-result", "", id, name, res, FALSE)

\* Prompt messages: a system message carries a string, the others parts
PromptMessage(role, text, content) == [role |-> role, text |-> text, content |-> content]
SystemOf(t) == PromptMessage("system", t, <<>>)
UserOf(content) == PromptMessage("user", "", content)
AssistantOf(content) == PromptMessage("assistant", "", content)
ToolOf(content) == PromptMessage("tool", "", content)

\* options.prompt.content
ProviderPrompts ==
    { <<UserOf(<<TextOf("Hi")>>)>>,
      <<SystemOf("Be brief"), UserOf(<<TextOf("Hi"), TextOf("there")>>),
        AssistantOf(<<ReasoningOf("think"), TextOf("Hello")>>),
        UserOf(<<TextOf("Bye")>>)>>,
      <<UserOf(<<TextOf("Hi"), FileOf("image/png")>>)>>,
      <<SystemOf("Be brief"),
        UserOf(<<TextOf("Hi")>>),
        AssistantOf(<<TextOf("Calling"), TextOf("f"),
                      ToolCallOf("call_a", "f", "object(x=1)", FALSE),
                      ToolCallOf("call_p", "search", "object()", TRUE)>>),
        ToolOf(<<ToolResultOf("call_a", "f", "ok")>>),
        UserOf(<<FileOf("application/pdf"), TextOf("and this")>>)>>,
      <<UserOf(<<TextOf("Hi")>>),
        AssistantOf(<<ReasoningOf("think"),
                      ToolCallOf("call_p", "search", "object()", TRUE)>>),
        ToolOf(<<ToolResultOf("call_p", "search", "ok")>>)>>,
      <<UserOf(<<TextOf("Hi")>>),
        AssistantOf(<<ToolCallOf("call_a", "f", "object(x=1)", FALSE),
                      ToolCallOf("call_b", "g", "object()", FALSE)>>),
        ToolOf(<<ToolResultOf("call_a", "f", "ok"),
                 ToolResultOf("call_b", "g", "object()")>>),
        AssistantOf(<<TextOf("Calling"), TextOf("f"),
                      ToolCallOf("call_c", "f", "object(x=1)", FALSE),
                      ToolCallOf("call_p", "search", "object()", TRUE)>>),
        UserOf(<<>>)>> }

\* JSON.stringify of a parameter or result value
JSONStringify(v) ==
    CASE v = "object()" -> "{}"
      [] v = "object(x=1)" -> "{\"x\":1}"
      [] OTHER -> "\"" \o v \o "\""

\* Array.prototype.join("\n")
RECURSIVE JoinLines(_)
JoinLines(ts) ==
    IF ts = <<>> THEN ""
    ELSE IF Len(ts) = 1 THEN ts[1]
    ELSE ts[1] \o "\n" \o JoinLines(Tail(ts))

\* ChatMessage
ChatMessage(role, content, toolCalls, toolCallId) ==
    [role |-> role, content |-> content, tool_calls |-> toolCalls,
     tool_call_id |-> toolCallId]

TextsOf(content) ==
    LET ts == SelectSeq(content, LAMBDA p : p.type = "text")
    IN [i \in 1..Len(ts) |-> ts[i].text]

HasFilePart_Never(message) == FALSE

\* case "file" of a user message
HasFilePart(message) ==
    \E i \in 1..Len(message.content) : message.content[i].type = "file"

UserContent_FirstText(texts) == IF texts = <<>> THEN "" ELSE texts[1]

\* user: content: textParts.join("\n")
UserContent(texts) == JoinLines(texts)

AssistantContent_NeverNull(texts) == JoinLines(texts)

\* assistant: const content = textParts.length > 0 ? textParts.join("\n") : null
AssistantContent(texts) == IF Len(texts) > 0 THEN JoinLines(texts) ELSE Null

\* the wire messages pushed for one prompt message
WireMessagesOf(message) ==
    CASE message.role = "system" ->
            <<ChatMessage("system", message.text, <<>>, "")>>
      [] message.role = "user" ->
            <<ChatMessage("user", UserContent(TextsOf(message.content)), <<>>, "")>>
      [] message.role = "assistant" ->
            LET texts == TextsOf(message.content)
                calls == SelectSeq(message.content,
                                  LAMBDA p : p.type = "tool-call" /\ ~p.providerExecuted)
                toolCalls == [i \in 1..Len(calls) |->
                                 [id |-> calls[i].id, type |-> "function",
                                  name |-> calls[i].name,
                                  arguments |-> JSONStringify(calls[i].value)]]
                content == AssistantContent(texts)
            IN IF Len(toolCalls) > 0
               THEN <<ChatMessage("assistant", content, toolCalls, "")>>
               ELSE IF content # Null
               THEN <<ChatMessage("assistant", content, <<>>, "")>>
               ELSE <<>>
      [] message.role = "tool" ->
            [i \in 1..Len(message.content) |->
                ChatMessage("tool", JSONStringify(message.content[i].value), <<>>,
                            message.content[i].id)]

\* prepareMessages: the wire messages, or the MalformedInput failure raised at
\* the first user message that holds a file part
RECURSIVE prepareMessages(_)
prepareMessages(content) ==
    IF content = <<>> THEN [ok |-> TRUE, messages |-> <<>>]
    ELSE IF Head(content).role = "user" /\ HasFilePart(Head(content))
    THEN [ok |-> FALSE, messages |-> <<>>]
    ELSE LET rest == prepareMessages(Tail(content))
         IN IF rest.ok
            THEN [ok |-> TRUE, messages |-> WireMessagesOf(Head(content)) \o rest.messages]
            ELSE rest

\* a tool of the toolkit: user-defined or provider-defined
ToolOfKind(name, kind) == [name |-> name, kind |-> kind]

\* options.tools
ToolSets ==
    { <<>>,
      <<ToolOfKind("f", "user")>>,
      <<ToolOfKind("f", "user"), ToolOfKind("g", "user")>>,
      <<ToolOfKind("f", "user"), ToolOfKind("web", "provider")>>,
      <<ToolOfKind("web", "provider"), ToolOfKind("g", "user")>> }

\* options.toolChoice: "auto" | "none" | "required" | {tool} | {mode, oneOf}
ToolChoice(kind, tool, mode, oneOf) ==
    [kind |-> kind, tool |-> tool, mode |-> mode, oneOf |-> oneOf]

ToolChoices ==
    { ToolChoice("auto", "", "", {}),
      ToolChoice("none", "", "", {}),
      ToolChoice("required", "", "", {}),
      ToolChoice("tool", "f", "", {}),
      ToolChoice("oneOf", "", "auto", {"f"}),
      ToolChoice("oneOf", "", "required", {"f", "g"}),
      ToolChoice("oneOf", "", "required", {"web"}) }

\* ChatCompletionToolChoice | undefined
ToolChoiceUnset == [kind |-> "undefined", value |-> ""]
ToolChoiceLiteral(v) == [kind |-> "string", value |-> v]

AllowedTools_Unfiltered(tools, toolChoice) == tools

\* allowedTools: the toolkit, filtered by oneOf under a subset policy
AllowedTools(tools, toolChoice) ==
    IF toolChoice.kind = "oneOf"
    THEN SelectSeq(tools, LAMBDA t : t.name \in toolChoice.oneOf)
    ELSE tools

IsProviderDefined(tool) == tool.kind = "provider"

\* ChatCompletionTool
ChatCompletionTool(tool) == [type |-> "function", name |-> tool.name, strict |-> TRUE]

SubsetMode_Auto(mode) == "auto"

\* toolChoice = options.toolChoice.mode === "required" ? "required" : "auto"
SubsetMode(mode) == IF mode = "required" THEN "required" ELSE "auto"

\* the toolChoice returned by prepareTools
WireToolChoice(toolChoice) ==
    CASE toolChoice.kind = "oneOf" -> ToolChoiceLiteral(SubsetMode(toolChoice.mode))
      [] toolChoice.kind \in {"none", "required"} -> ToolChoiceLiteral(toolChoice.kind)
      [] toolChoice.kind = "tool" ->
            [kind |-> "function", value |-> toolChoice.tool]
      [] OTHER -> ToolChoiceUnset

\* prepareTools: tools and toolChoice of the request, or the MalformedInput
\* failure raised at a provider-defined tool among the allowed tools
prepareTools(tools, toolChoice) ==
    IF Len(tools) = 0
    THEN [ok |-> TRUE, tools |-> None, toolChoice |-> ToolChoiceUnset]
    ELSE LET allowedTools == AllowedTools(tools, toolChoice)
         IN IF \E i \in 1..Len(allowedTools) : IsProviderDefined(allowedTools[i])
            THEN [ok |-> FALSE, tools |-> None, toolChoice |-> ToolChoiceUnset]
            ELSE [ok |-> TRUE,
                  tools |-> Some([i \in 1..Len(allowedTools) |->
                                     ChatCompletionTool(allowedTools[i])]),
                  toolChoice |-> WireToolChoice(toolChoice)]

prepareResponseFormat(responseFormat) ==
    IF responseFormat.type = "json"
    THEN Some([type |-> "json_schema", name |-> responseFormat.objectName,
               strict |-> TRUE])
    ELSE None

\* McpRegistry.toApiFormat
toApiFormat(servers) ==
    [i \in 1..Len(servers) |->
        IF servers[i].tag = "url" THEN servers[i].url ELSE servers[i].id]

\* LanguageModel.ProviderOptions
ProviderOptions ==
    [prompt : ProviderPrompts,
     tools : ToolSets,
     toolChoice : ToolChoices,
     responseFormat : {[type |-> "text", objectName |-> ""],
                       [type |-> "json", objectName |-> "Answer"]},
     \* McpRegistry.url(...), McpRegistry.marketplace(...)
     mcpServers : { <<>>,
                    <<[tag |-> "url", url |-> "https://mcp.example.com", id |-> ""],
                      [tag |-> "marketplace", url |-> "",
                       id |-> "dedalus-labs/brave-search"]>> }]

\* Config.Service: the fields a configuration sets (None where it sets none)
ConfigService(temperature, mcp) == [temperature |-> temperature, mcp_servers |-> mcp]

\* { ...a, ...b }
Spread(a, b) ==
    [k \in DOMAIN a |-> IF IsSome(b[k]) THEN b[k] ELSE a[k]]

\* makeRequest: the encoded ChatCompletionRequest, or the MalformedInput
\* failure of prepareMessages or prepareTools
makeRequest(po, modelConfig, contextConfig) ==
    LET cfg == Spread(modelConfig, contextConfig)
        m == prepareMessages(po.prompt)
        t == prepareTools(po.tools, po.toolChoice)
    IN IF ~m.ok \/ ~t.ok
       THEN [ok |-> FALSE, request |-> None]
       ELSE [ok |-> TRUE,
             request |-> Some([model |-> "openai/gpt-4o",
                               temperature |-> cfg.temperature,
                               messages |-> m.messages,
                               tools |-> t.tools,
                               tool_choice |-> t.toolChoice,
                               response_format |-> prepareResponseFormat(po.responseFormat),
                               mcp_servers |-> IF Len(po.mcpServers) > 0
                                               THEN Some(toApiFormat(po.mcpServers))
                                               ELSE None])]

(***************************************************************************)
(* DedalusClient: createChatCompletion, createChatCompletionStream          *)
(***************************************************************************)
\* response bodies: a chat completion, a validation error ({detail: [...]}),
\* a JSON object with a malformed detail, any other JSON object, not JSON
HttpBody(kind, completion) == [kind |-> kind, completion |-> completion]

\* chat completions the server answers with
ReceivedCompletions ==
    { [choices |-> <<[content |-> "Hello", refusal |-> Null, annotations |-> <<>>,
                      tool_calls |-> None, finish_reason |-> "stop"]>>,
       tools_executed |-> None],
      [choices |-> <<[content |-> Null, refusal |-> Null, annotations |-> <<>>,
                      tool_calls |-> Some(<<WireToolCall("call_a", "function", "f",
                                                          ArgEmptyObject)>>),
                      finish_reason |-> "tool_calls"]>>,
       tools_executed |-> None],
      [choices |-> <<[content |-> Null, refusal |-> Null, annotations |-> <<>>,
                      tool_calls |-> Some(<<WireToolCall("call_a", "function", "f",
                                                          ArgTruncated)>>),
                      finish_reason |-> "tool_calls"]>>,
       tools_executed |-> None] }

NoCompletion == [choices |-> <<>>, tools_executed |-> None]

HttpBodies ==
    {HttpBody("ChatCompletion", c) : c \in ReceivedCompletions}
    \cup {HttpBody(k, NoCompletion) : k \in {"HTTPValidationError", "badDetail",
                                              "object", "text"}}

\* what httpClient.execute(request) comes back with
HttpOutcome(transport, status, body) ==
    [transport |-> transport, status |-> status, body |-> body]

HttpOutcomes ==
    {HttpOutcome("RequestError", 0, HttpBody("text", NoCompletion))}
    \cup {HttpOutcome("response", st, b) : st \in {200, 422, 500}, b \in HttpBodies}

matchStatus_No422(status) ==
    IF status >= 200 /\ status < 300 THEN "2xx" ELSE "orElse"

\* HttpClientResponse.matchStatus({ "2xx", "422", orElse })
matchStatus(status) ==
    IF status >= 200 /\ status < 300 THEN "2xx"
    ELSE IF status = 422 THEN "422"
    ELSE "orElse"

\* HttpClientResponse.schemaBodyJson(schema)(response): "ok", a ParseError
\* when the JSON does not fit the schema, a ResponseError when it is not JSON
schemaBodyJson(schema, body) ==
    IF body.kind = "text" THEN "ResponseError"
    ELSE IF schema = "ChatCompletion"
    THEN (IF body.kind = "ChatCompletion" THEN "ok" ELSE "ParseError")
    ELSE (IF body.kind = "badDetail" THEN "ParseError" ELSE "ok")

\* decodeValidationError: fails with MalformedInput once the body decodes
decodeValidationError(body) ==
    LET d == schemaBodyJson("HTTPValidationError", body)
    IN IF d = "ok" THEN "MalformedInput" ELSE d

\* createChatCompletionV1ChatCompletionsPost on a received outcome: "ok" or
\* the tag of the failure
createChatCompletionV1ChatCompletionsPost(o) ==
    IF o.transport = "RequestError" THEN "RequestError"
    ELSE CASE matchStatus(o.status) = "2xx" -> schemaBodyJson("ChatCompletion", o.body)
           [] matchStatus(o.status) = "422" -> decodeValidationError(o.body)
           [] OTHER -> "ResponseError"

\* createChatCompletion: "ok" or the AiError the call fails with
createChatCompletion(o) == catchTags(createChatCompletionV1ChatCompletionsPost(o))

\* HttpClient.filterStatusOk(httpClient).execute: the response head of the
\* stream request
createChatCompletionStream(o) ==
    catchTags(IF o.transport = "RequestError" THEN "RequestError"
              ELSE IF o.status >= 200 /\ o.status < 300 THEN "ok"
              ELSE "ResponseError")

CallIdle ==
    /\ callOp = "idle"
    /\ providerOptions = <<>>
    /\ modelOptions = <<>>
    /\ contextOptions = <<>>
    /\ request = None
    /\ transportCalls = 0
    /\ httpOutcome = None
    /\ callStatus = "idle"
    /\ callError = "none"

CallInit ==
    /\ callOp \in {"generateText", "streamText"}
    /\ providerOptions \in ProviderOptions
    /\ modelOptions \in {ConfigService(None, None),
                         ConfigService(Some("0.2"), Some(<<"config-server">>))}
    /\ contextOptions \in {ConfigService(None, None), ConfigService(Some("0.7"), None)}
    /\ request = None
    /\ transportCalls = 0
    /\ httpOutcome = None
    /\ callStatus = "start"
    /\ callError = "none"

\* const request = yield* makeRequest(options)
MakeRequest ==
    /\ callStatus = "start"
    /\ LET r == makeRequest(providerOptions, modelOptions, contextOptions)
       IN /\ request' = r.request
          /\ callStatus' = IF r.ok THEN "built" ELSE "failed"
          /\ callError' = IF r.ok THEN "none" ELSE "MalformedInput"
    /\ UNCHANGED <<callOp, providerOptions, modelOptions, contextOptions,
                   transportCalls, httpOutcome>>
    /\ UNCHANGED <<reactVars, respVars, streamVars, finishVars>>

\* the request is handed to the transport (httpClient.execute)
Execute ==
    /\ callStatus = "built"
    /\ transportCalls' = transportCalls + 1
    /\ callStatus' = "inflight"
    /\ UNCHANGED <<callOp, providerOptions, modelOptions, contextOptions,
                   request, httpOutcome, callError>>
    /\ UNCHANGED <<reactVars, respVars, streamVars, finishVars>>

\* generateText: the transport answers; the decoded response goes on to
\* makeResponse
CreateChatCompletion ==
    /\ callOp = "generateText"
    /\ callStatus = "inflight"
    /\ \E o \in HttpOutcomes :
        LET r == createChatCompletion(o)
        IN /\ httpOutcome' = Some(o)
           /\ IF r = "ok"
              THEN /\ response' = o.body.completion
                   /\ respStatus' = "received"
                   /\ callStatus' = "responded"
                   /\ callError' = "none"
              ELSE /\ callStatus' = "failed"
                   /\ callError' = r
                   /\ UNCHANGED <<response, respStatus>>
    /\ UNCHANGED <<callOp, providerOptions, modelOptions, contextOptions,
                   request, transportCalls, parts>>
    /\ UNCHANGED <<reactVars, streamVars, finishVars>>

\* streamText: the transport answers; on a 2xx status the chunk stream opens
CreateChatCompletionStream ==
    /\ callOp = "streamText"
    /\ callStatus = "inflight"
    /\ \E o \in HttpOutcomes :
        LET r == createChatCompletionStream(o)
        IN /\ httpOutcome' = Some(o)
           /\ IF r = "ok"
              THEN /\ streamStatus' = "open"
                   /\ callStatus' = "streaming"
                   /\ callError' = "none"
              ELSE /\ callStatus' = "failed"
                   /\ callError' = r
                   /\ UNCHANGED streamStatus
    /\ UNCHANGED <<callOp, providerOptions, modelOptions, contextOptions,
                   request, transportCalls>>
    /\ UNCHANGED <<chunkLog, activeToolCalls, hasEmittedMetadata, hasToolCalls,
                   events, streamError, streamCause>>
    /\ UNCHANGED <<reactVars, respVars, finishVars>>

(***************************************************************************)
(* Specifications                                                          *)
(***************************************************************************)
\* one top-level call through AgentRunner.ReAct
Init == ReActInit /\ RespIdle /\ StreamIdle /\ FinishIdle /\ CallIdle

Next ==
    \/ GenerateInvoke
    \/ GenerateRespond
    \/ GenerateFail
    \/ GenerateReturn
    \/ RunTurnEmpty
    \/ RunTurn
    \/ StreamPart
    \/ StreamFail
    \/ ContinueOrEnd
    \/ Abort

Spec == Init /\ [][Next]_vars

\* one single-turn call of the Dedalus model: generateText (makeResponse on
\* the decoded response) or streamText (the chunk stream through
\* makeStreamResponse)
InitTurn ==
    /\ ReActIdle
    /\ FinishIdle
    /\ CallIdle
    /\ \/ RespInit /\ StreamIdle
       \/ RespIdle /\ StreamInit

NextTurn ==
    \/ MakeResponse
    \/ StreamChunk
    \/ StreamEnd
    \/ StreamError

SpecTurn == InitTurn /\ [][NextTurn]_vars

\* one stream returned by ReAct.streamText, executed up to MaxExecutions times
\* one after the other
InitRerun ==
    /\ ReActInit
    /\ op = "streamText"
    /\ RespIdle /\ StreamIdle /\ FinishIdle /\ CallIdle

NextRerun ==
    \/ RunTurnEmpty
    \/ RunTurn
    \/ StreamPart
    \/ StreamFail
    \/ ContinueOrEnd
    \/ ReExecute

SpecRerun == InitRerun /\ [][NextRerun]_vars

\* a ReAct call whose underlying invocations all return (their streams all
\* end) and which is not interrupted: the runtime keeps running the fiber and
\* the underlying capability keeps answering
NextLive ==
    \/ GenerateInvoke
    \/ GenerateRespond
    \/ GenerateReturn
    \/ RunTurnEmpty
    \/ RunTurn
    \/ StreamPart
    \/ ContinueOrEnd

SpecLive == Init /\ [][NextLive]_vars /\ WF_vars(NextLive)

\* one ReAct.streamObject call
InitObject ==
    /\ op = "streamObject"
    /\ config \in {<<>>} \cup {<<n>> : n \in 0..MaxTurnsBound}
    /\ prompt \in CallerPrompts
    /\ history = prompt
    /\ turns = 0
    /\ allContent = <<>>
    /\ finalValue = <<>>
    /\ currentPrompt = <<>>
    /\ accumulatedParts = <<>>
    /\ finishReason = "unknown"
    /\ innerStream = <<>>
    /\ pc = "loop"
    /\ result = <<>>
    /\ output = <<>>
    /\ invocations = <<>>
    /\ failure = "none"
    /\ resultValue = <<>>
    /\ abortedAt = <<>>
    /\ execution = 1
    /\ RespIdle /\ StreamIdle /\ FinishIdle /\ CallIdle

NextObject ==
    \/ StreamObjectOpen
    \/ StreamObjectPart
    \/ StreamObjectFail
    \/ StreamObjectEnd

SpecObject == InitObject /\ [][NextObject]_vars

\* resolveFinishReason applied to one pair of arguments
InitFinish == ReActIdle /\ RespIdle /\ StreamIdle /\ FinishInit /\ CallIdle

NextFinish ==
    \/ ResolveFinishReason
    \/ ResolveFinishReasonInternal

SpecFinish == InitFinish /\ [][NextFinish]_vars

\* one generateText or streamText call of the Dedalus model, from request
\* building to the decoded response (generateText) or the opened chunk
\* stream (streamText)
InitCall == ReActIdle /\ RespIdle /\ StreamIdle /\ FinishIdle /\ CallInit

NextCall ==
    \/ MakeRequest
    \/ Execute
    \/ CreateChatCompletion
    \/ CreateChatCompletionStream
    \/ MakeResponse

SpecCall == InitCall /\ [][NextCall]_vars

(***************************************************************************)
(* Properties of AgentRunner.ReAct                                         *)
(***************************************************************************)
IsPrefix(s, t) == Len(s) <= Len(t) /\ SubSeq(t, 1, Len(s)) = s
Range(s) == {s[i] : i \in 1..Len(s)}

RECURSIVE Flatten(_)
Flatten(ss) == IF ss = <<>> THEN <<>> ELSE Head(ss) \o Flatten(Tail(ss))

Calls == Len(invocations)
ContentOf(i) == invocations[i].content
PromptOf(i) == invocations[i].prompt
Answered(i) == ContentOf(i) # <<>>
FinishPartsOf(s) == SelectSeq(s, IsFinish)
OtherPartsOf(s) == SelectSeq(s, IsNotFinish)
TerminalReasons == {"stop", "length", "content-filter", "error", "unknown"}
IsGenerate == op \in {"generateText", "generateObject"}

\* C1: one top-level call invokes the underlying capability at most maxTurns
\* times; the turn counter equals the number of invocations and never
\* exceeds maxTurns.
C1_TurnBudget ==
    (op # "idle") =>
        /\ Calls <= maxTurns
        /\ turns = Calls
        /\ turns <= maxTurns

C1_Witness ==
    /\ op = "streamText"
    /\ pc = "loop"
    /\ maxTurns = MaxTurnsBound
    /\ Calls = maxTurns

\* C2: when every turn finishes with tool-calls, generateText invokes the
\* capability exactly maxTurns times (10 when maxTurns is not configured) and
\* the returned parts contain every turn's tool-call and tool-result parts.
AllTurnsToolCalls ==
    \A i \in 1..Calls : Answered(i) /\ FinishReasonOf(ContentOf(i)) = "tool-calls"

C2_ExhaustsBudget ==
    (op = "generateText" /\ pc = "done" /\ AllTurnsToolCalls) =>
        /\ Calls = maxTurns
        /\ (config = <<>> => Calls = DefaultMaxTurns)
        /\ \A i \in 1..Calls : \A j \in 1..Len(ContentOf(i)) :
              ContentOf(i)[j].type \in {"tool-call", "tool-result"}
                  => ContentOf(i)[j] \in Range(result)

C2_Witness ==
    /\ op = "generateText"
    /\ pc = "done"
    /\ config = <<>>
    /\ AllTurnsToolCalls
    /\ Calls = DefaultMaxTurns
    /\ ToolResultPart(DefaultMaxTurns) \in Range(result)

\* C3: the loop ends on the first turn whose finish reason is stop, length,
\* content-filter, error or unknown: a turn with such a reason is always the
\* last invocation of the call, whatever maxTurns is.
C3_TerminatingTurnIsLast ==
    \A i \in 1..Calls :
        (Answered(i) /\ FinishReasonOf(ContentOf(i)) \in TerminalReasons) => i = Calls

C3_Witness ==
    /\ pc = "done"
    /\ maxTurns = DefaultMaxTurns
    /\ Calls = 1
    /\ FinishReasonOf(ContentOf(1)) = "stop"

\* C4: when generateText ends on a terminating turn k and every turn carried
\* one finish part, the returned parts hold exactly one finish part, turn k's,
\* and every other part of the earlier turns.
EachTurnOneFinish ==
    \A i \in 1..Calls : Len(FinishPartsOf(ContentOf(i))) = 1

C4_OnlyTerminalFinish ==
    (/\ op = "generateText"
     /\ pc = "done"
     /\ Calls >= 1
     /\ EachTurnOneFinish
     /\ FinishReasonOf(ContentOf(Calls)) \in TerminalReasons) =>
        /\ FinishPartsOf(result) = FinishPartsOf(ContentOf(Calls))
        /\ \A i \in 1..Calls : Range(OtherPartsOf(ContentOf(i))) \subseteq Range(result)

C4_Witness ==
    /\ op = "generateText"
    /\ pc = "done"
    /\ Calls = 3
    /\ EachTurnOneFinish
    /\ FinishPartsOf(result) = <<FinishPart("stop", 3)>>

\* C5 (as claimed): when the loop exits because turns reached maxTurns without
\* a terminating reason, the result still carries the last turn's finish part.
BudgetExhausted ==
    /\ op = "generateText"
    /\ pc = "done"
    /\ Calls >= 1
    /\ Calls = maxTurns
    /\ EachTurnOneFinish
    /\ FinishReasonOf(ContentOf(Calls)) = "tool-calls"

C5_LastFinishKept ==
    BudgetExhausted => FinishPart("tool-calls", Calls) \in Range(result)

\* C6: in generateText and generateObject the accumulated list only grows (the
\* old list is a prefix of the new one) and the returned list is the
\* concatenation, in turn order, of every turn's parts minus the finish parts
\* of the non-terminating turns.
ExpectedParts(i) ==
    IF FinishReasonOf(ContentOf(i)) \in TerminalReasons
    THEN ContentOf(i)
    ELSE OtherPartsOf(ContentOf(i))

ExpectedResult == Flatten([i \in 1..Calls |-> ExpectedParts(i)])

C6_Step ==
    IsGenerate =>
        /\ IsPrefix(allContent, allContent')
        /\ (pc' = "done" => result' = ExpectedResult')

C6_AccumulationGrows == [][C6_Step]_vars

C6_Witness ==
    /\ op = "generateObject"
    /\ pc = "done"
    /\ Calls = 3
    /\ Len(result) > Len(ContentOf(3))

\* C7: the first invocation receives exactly the caller's prompt, and every
\* later invocation receives the previous prompt followed by the messages
\* built from the previous turn's parts, so the previous prompt is a prefix.
C7_PromptSplicing ==
    \A i \in 1..Calls :
        IF i = 1
        THEN PromptOf(1) = prompt
        ELSE /\ PromptOf(i) = PromptOf(i - 1) \o fromResponseParts(ContentOf(i - 1))
             /\ IsPrefix(PromptOf(i - 1), PromptOf(i))
             /\ IsPrefix(prompt, PromptOf(i))

C7_Witness ==
    /\ op = "streamText"
    /\ Calls = 3
    /\ Len(PromptOf(3)) = Len(prompt) + 3

(***************************************************************************)
(* Properties of DedalusLanguageModel                                      *)
(***************************************************************************)
FinishCount(ps) == Len(SelectSeq(ps, IsFinish))

\* C8 (as claimed): every part list produced by makeResponse holds at most one
\* finish part and, when it holds one, the finish part is its last element,
\* also when the response reports server-executed tools in tools_executed.
C8_FinishIsLast ==
    respStatus = "done" =>
        /\ FinishCount(parts) <= 1
        /\ FinishCount(parts) = 1 => parts[Len(parts)].type = "finish"

\* C9: whenever the response carries a wire tool call, or the stream carries
\* one (a tool_calls delta announcing a call id), the emitted finish part has
\* reason tool-calls whatever the wire finish_reason is.
ResponseHasToolCall ==
    /\ respStatus = "done"
    /\ Len(response.choices) > 0
    /\ Len(MessageToolCalls(response.choices[1])) > 0

AnnouncesToolCall(chunk) ==
    /\ Len(chunk) > 0
    /\ IsSome(chunk[1].delta.tool_calls)
    /\ \E j \in 1..Len(Get(chunk[1].delta.tool_calls)) :
          Truthy(Get(chunk[1].delta.tool_calls)[j].id)

StreamHasToolCall ==
    \E i \in 1..Len(chunkLog) : AnnouncesToolCall(chunkLog[i])

AllFinishToolCalls(ps) ==
    \A i \in 1..Len(ps) : ps[i].type = "finish" => ps[i].reason = "tool-calls"

ClaimedReason(reason) ==
    CASE reason = "stop" -> "stop"
      [] reason = "length" -> "length"
      [] reason = "content_filter" -> "content-filter"
      [] reason = "tool_calls" -> "tool-calls"
      [] reason = "function_call" -> "tool-calls"
      [] reason \in {Null, Undefined} -> "stop"
      [] OTHER -> "unknown"

C10_WireReasonMapping ==
    (resolved # "pending" /\ ~wireHasToolCalls) => resolved = ClaimedReason(wireReason)

\* the tool_calls deltas of the first choice of every consumed chunk, in
\* arrival order
ChunkToolCallDeltas(chunk) ==
    IF Len(chunk) > 0 /\ IsSome(chunk[1].delta.tool_calls)
    THEN Get(chunk[1].delta.tool_calls)
    ELSE <<>>

ReceivedDeltas == Flatten([i \in 1..Len(chunkLog) |-> ChunkToolCallDeltas(chunkLog[i])])

RegisteredIndexes ==
    {ReceivedDeltas[j].index : j \in {k \in 1..Len(ReceivedDeltas) : Truthy(ReceivedDeltas[k].id)}}

RegisteredIds(index) ==
    {ReceivedDeltas[j].id : j \in {k \in 1..Len(ReceivedDeltas) :
                                     /\ ReceivedDeltas[k].index = index
                                     /\ Truthy(ReceivedDeltas[k].id)}}

\* concatenation, in arrival order, of the function.arguments fragments of
\* the deltas ds that carry the index
RECURSIVE FragmentsFor(_, _)
FragmentsFor(index, ds) ==
    IF ds = <<>> THEN <<>>
    ELSE (IF Head(ds).index = index /\ IsSome(Head(ds).arguments)
          THEN Get(Head(ds).arguments) ELSE <<>>)
         \o FragmentsFor(index, Tail(ds))

EndsWithFinishReason ==
    /\ chunkLog # <<>>
    /\ IsLastChunk(chunkLog[Len(chunkLog)])

ToolCallEventsOf(ids) ==
    SelectSeq(events, LAMBDA e : e.type = "tool-call" /\ e.id \in ids)

IdOnFirstDeltaOnly ==
    \A j \in 1..Len(ReceivedDeltas) :
        Truthy(ReceivedDeltas[j].id) =>
            \A k \in 1..(j - 1) : ReceivedDeltas[k].index # ReceivedDeltas[j].index

FirstChoiceFinishes ==
    /\ chunkLog # <<>>
    /\ Len(chunkLog[Len(chunkLog)]) > 0
    /\ chunkLog[Len(chunkLog)][1].finish_reason # Null

AllBuffersParse ==
    \A index \in RegisteredIndexes :
        unsafeSecureJsonParse(FragmentsFor(index, ReceivedDeltas)).ok

C12_CutAfterFinish ==
    /\ FinishCount(events) <= 1
    /\ FinishCount(events) = 1 => events[Len(events)].type = "finish"
    /\ \A i \in 1..Len(chunkLog) : IsLastChunk(chunkLog[i]) => i = Len(chunkLog)
    /\ EndsWithFinishReason => streamStatus \in {"ended", "failed"}

\* a finish_reason chunk ends the stream while further chunks could still be
\* taken, and the finish part is the last event
C12_Witness ==
    /\ streamStatus = "ended"
    /\ Len(chunkLog) = 2
    /\ Len(chunkLog) < MaxChunks
    /\ chunkLog[2][1].finish_reason = "stop"
    /\ FinishCount(events) = 1
    /\ events[Len(events)].type = "finish"

(***************************************************************************)
(* Properties of a DedalusLanguageModel call                               *)
(***************************************************************************)
CallPrompt == providerOptions.prompt

PromptHasUserFile ==
    \E i \in 1..Len(CallPrompt) :
        /\ CallPrompt[i].role = "user"
        /\ \E j \in 1..Len(CallPrompt[i].content) : CallPrompt[i].content[j].type = "file"

\* C13: if a user message of the prompt contains a file part, generateText
\* and streamText fail with MalformedInput and the transport is never invoked.
C13_FilePartRejected ==
    (callOp \in {"generateText", "streamText"} /\ PromptHasUserFile) =>
        /\ transportCalls = 0
        /\ request = None
        /\ callStatus \in {"start", "failed"}
        /\ callStatus = "failed" => callError = "MalformedInput"

\* a streamText call whose last user message, after an assistant and a tool
\* message, holds the file part has failed
C13_Witness ==
    /\ callOp = "streamText"
    /\ Len(CallPrompt) = 5
    /\ PromptHasUserFile
    /\ callStatus = "failed"
    /\ callError = "MalformedInput"
    /\ transportCalls = 0

\* C14 (as claimed): every MalformedInput failure of a generateText call is
\* raised before any request is handed to the transport.
C14_MalformedInputBeforeTransport ==
    (callOp = "generateText" /\ callError = "MalformedInput") => transportCalls = 0

Answered422WithValidationError ==
    /\ IsSome(httpOutcome)
    /\ Get(httpOutcome).transport = "response"
    /\ Get(httpOutcome).status = 422
    /\ Get(httpOutcome).body.kind = "HTTPValidationError"

CallTools == providerOptions.tools
CallToolChoice == providerOptions.toolChoice

RequestBuildingOver == callStatus \notin {"idle", "start"}

ToolSetHasProvider ==
    \E i \in 1..Len(CallTools) : CallTools[i].kind = "provider"

\* C16 (as claimed): whenever the tool set contains a provider-defined tool,
\* request building fails with MalformedInput, for every tool-choice policy.
C16_ProviderToolRejected ==
    (RequestBuildingOver /\ ToolSetHasProvider) =>
        /\ callStatus = "failed"
        /\ callError = "MalformedInput"
        /\ transportCalls = 0

\* a provider-defined tool that the tool-choice policy lets through: any one
\* of the tool set, or under a subset policy one that the subset names
ProviderToolAllowed ==
    \E i \in 1..Len(CallTools) :
        /\ CallTools[i].kind = "provider"
        /\ CallToolChoice.kind = "oneOf" => CallTools[i].name \in CallToolChoice.oneOf

\* C16 (amended): request building fails with MalformedInput, before any
\* transport call, whenever a provider-defined tool is among the allowed
\* tools; a provider-defined tool that a subset policy does not name is left
\* out of the request and does not fail it.
C16_AllowedProviderToolRejected ==
    RequestBuildingOver =>
        /\ ProviderToolAllowed =>
              /\ callStatus = "failed"
              /\ callError = "MalformedInput"
              /\ transportCalls = 0
              /\ request = None
        /\ (ToolSetHasProvider /\ ~ProviderToolAllowed /\ ~PromptHasUserFile) =>
              /\ IsSome(request)
              /\ IsSome(Get(request).tools)
              /\ \A i \in 1..Len(Get(Get(request).tools)) :
                    Get(Get(request).tools)[i].name \in CallToolChoice.oneOf

\* a subset policy that names the provider-defined tool: the call has failed
C16_Witness ==
    /\ CallToolChoice.kind = "oneOf"
    /\ ProviderToolAllowed
    /\ callStatus = "failed"
    /\ callError = "MalformedInput"
    /\ ~PromptHasUserFile

\* C17 (as claimed): the tool_choice of the request built by prepareTools is
\* never the literal string "auto", and an auto policy leaves it unset.
C17_NeverLiteralAuto ==
    IsSome(request) =>
        /\ Get(request).tool_choice # ToolChoiceLiteral("auto")
        /\ CallToolChoice.kind = "auto" => Get(request).tool_choice = ToolChoiceUnset

(***************************************************************************)
(* Failure and streaming order of AgentRunner.ReAct                        *)
(***************************************************************************)
ErrorOf(i) == invocations[i].error

\* C18: if the underlying capability fails on turn k, the call fails with the
\* same error, the capability has been invoked exactly k times (the failed
\* invocation is the last one) and generateText / generateObject return
\* nothing, whatever turns 1..k-1 accumulated.
C18_FailurePropagates ==
    /\ \A i \in 1..Calls :
          ErrorOf(i) # "none" =>
              /\ i = Calls
              /\ turns = i
              /\ pc = "failed"
              /\ failure = ErrorOf(i)
              /\ result = <<>>
    /\ pc = "failed" => (Calls > 0 /\ ErrorOf(Calls) # "none")
    /\ failure # "none" => pc = "failed"

\* generateText fails on its second turn after the first turn's tool call and
\* tool result were accumulated
C18_Witness ==
    /\ op = "generateText"
    /\ pc = "failed"
    /\ Calls = 2
    /\ ErrorOf(1) = "none"
    /\ ErrorOf(2) = "MalformedOutput"
    /\ failure = "MalformedOutput"
    /\ Len(allContent) = 2
    /\ result = <<>>

\* the parts of the first n invocations, in turn order
ContentsUpTo(n) == Flatten([i \in 1..n |-> ContentOf(i)])

\* a step that opens the inner stream of a further turn
OpensTurn == op = "streamText" /\ Len(invocations') = Len(invocations) + 1

C19_Step ==
    OpensTurn =>
        /\ innerStream = <<>>
        /\ output = ContentsUpTo(Calls)

\* parts carry the number of the turn that produced them
C19_Ordered ==
    op = "streamText" =>
        \A i \in 1..Len(output) : \A j \in i..Len(output) : output[i].id <= output[j].id

\* C19: in ReAct.streamText the inner stream of turn N+1 is opened only once
\* the stream of turn N is drained and all its parts are in the output, and
\* in the output every part of turn N precedes every part of turn N+1.
C19_SequentialTurns == [][C19_Step]_vars /\ []C19_Ordered

\* turn 2 is streaming after turn 1 was emitted in full
C19_Witness ==
    /\ op = "streamText"
    /\ pc = "streaming"
    /\ Calls = 2
    /\ Len(output) = 4
    /\ SubSeq(output, 1, 3) = ContentOf(1)
    /\ output[4].id = 2

\* C20: the output of ReAct.streamText is the concatenation, in turn order,
\* of the parts the invoked turns emitted, finish parts included: a finished
\* run of N turns with one finish part each emits N finish parts, and exactly
\* maxTurns of them when every turn ends with tool-calls.
C20_OutputIsConcatenation ==
    op = "streamText" =>
        /\ pc \in {"loop", "done", "failed"} => output = ContentsUpTo(Calls)
        /\ pc = "streaming" =>
              /\ output = ContentsUpTo(Calls - 1) \o accumulatedParts
              /\ IsPrefix(accumulatedParts, ContentOf(Calls))
        /\ (pc = "done" /\ EachTurnOneFinish) => FinishCount(output) = Calls
        /\ (pc = "done" /\ AllTurnsToolCalls) =>
              /\ Calls = maxTurns
              /\ FinishCount(output) = maxTurns

\* maxTurns 2, both turns end with tool-calls: two finish parts
C20_Witness ==
    /\ op = "streamText"
    /\ pc = "done"
    /\ config = <<2>>
    /\ AllTurnsToolCalls
    /\ EachTurnOneFinish
    /\ Calls = 2
    /\ Len(output) = 6
    /\ FinishCount(output) = 2

\* C21: ReAct.generateObject returns the value decoded by the last turn it
\* invoked (the terminating turn, or the maxTurns-th turn on exhaustion),
\* whatever values the earlier turns decoded.
C21_LastValueReturned ==
    (op = "generateObject" /\ pc = "done" /\ Calls >= 1) =>
        resultValue = ValueOfTurn(Calls)

\* the second turn terminates the call after a first turn that also decoded a
\* value
C21_Witness ==
    /\ op = "generateObject"
    /\ pc = "done"
    /\ Calls = 2
    /\ FinishReasonOf(ContentOf(2)) = "stop"
    /\ resultValue = ValueOfTurn(2)

\* C22: the usage of the response returned by ReAct.generateText is aggregated
\* over all turns: its totalTokens is the sum of the totalTokens reported by the
\* finish parts of every turn of the run.
TokensReported(i) == Len(FinishPartsOf(ContentOf(i))) * FinishTotalTokens

RECURSIVE TokensUpTo(_)
TokensUpTo(n) == IF n = 0 THEN 0 ELSE TokensUpTo(n - 1) + TokensReported(n)

C22_UsageAggregated ==
    (op = "generateText" /\ pc = "done" /\ Calls >= 1) =>
        UsageTotalTokens(result) = <<TokensUpTo(Calls)>>

\* C23: when the overarching ReAct call is aborted while turn k is in flight,
\* the request or stream of turn k is abandoned, the underlying capability is
\* never invoked for turn k+1, and no result is delivered to the caller.
AbortedInFlight ==
    /\ abortedAt # <<>>
    /\ abortedAt[1] >= 1

C23_AbortStopsTheLoop ==
    AbortedInFlight =>
        /\ Calls = abortedAt[1]
        /\ turns = abortedAt[1]
        /\ pc = "aborted"
        /\ result = <<>>
        /\ resultValue = <<>>
        /\ failure = "none"

\* a streaming run interrupted in its second turn, after a part of that turn
\* was forwarded and before the turn's stream was drained
C23_Witness ==
    /\ op = "streamText"
    /\ AbortedInFlight
    /\ abortedAt = <<2>>
    /\ Calls = 2
    /\ accumulatedParts # <<>>
    /\ innerStream # <<>>
    /\ pc = "aborted"

\* a generateText call interrupted while its first request is awaited
C23_WitnessAwait ==
    /\ op = "generateText"
    /\ AbortedInFlight
    /\ abortedAt = <<1>>
    /\ pc = "aborted"

\* C30: every execution of the stream returned by ReAct.streamText starts in
\* Running(0, original prompt): a second execution of the same stream value
\* does not see the turn count or the history written by the first.
C30_StartsFresh == execution' # execution => (turns' = 0 /\ history' = prompt)

C30_FreshExecution == [][C30_StartsFresh]_vars

\* C24: a single-turn stream that fails ends with MalformedOutput when a tool
\* call's argument string is rejected by the secure JSON parse or an SSE frame
\* does not decode, and with HttpRequestError / HttpResponseError when the
\* transport fails; it emits no finish part, before or after the failure.
ExpectedStreamError ==
    CASE streamCause = "unsafeSecureJsonParse" -> "MalformedOutput"
      [] streamCause = "ParseError" -> "MalformedOutput"
      [] streamCause = "RequestError" -> "HttpRequestError"
      [] streamCause = "ResponseError" -> "HttpResponseError"
      [] OTHER -> "none"

C24_FailedStreamHasNoFinish ==
    /\ streamStatus = "failed" =>
          /\ streamCause # "none"
          /\ streamError = ExpectedStreamError
          /\ FinishCount(events) = 0
    /\ FinishCount(events) > 0 => streamStatus = "ended"

\* the transport fails after parts of the turn were emitted
C24_Witness ==
    /\ streamStatus = "failed"
    /\ streamCause = "ResponseError"
    /\ streamError = "HttpResponseError"
    /\ Len(chunkLog) >= 2
    /\ Len(events) >= 2

\* the chunk carrying the finish_reason is the one whose tool-call arguments
\* are rejected, after an earlier chunk was emitted
C24_WitnessParse ==
    /\ streamStatus = "failed"
    /\ streamCause = "unsafeSecureJsonParse"
    /\ Len(chunkLog) >= 2
    /\ chunkLog[Len(chunkLog)][1].finish_reason # Null
    /\ events # <<>>

\* C28: every non-empty single-turn stream emits exactly one response-metadata
\* event, as its first event, with the parts of the first chunk; makeResponse
\* emits exactly one response-metadata part, as the first part.
IsMetadata(p) == p.type = "response-metadata"
MetadataCount(ps) == Len(SelectSeq(ps, IsMetadata))

C28_OneMetadataFirst ==
    /\ events # <<>> =>
          /\ IsMetadata(events[1])
          /\ MetadataCount(events) = 1
    /\ (chunkLog # <<>> /\ events = <<>>) =>
          (streamStatus = "failed" /\ Len(chunkLog) = 1)
    /\ respStatus = "done" =>
          /\ IsMetadata(parts[1])
          /\ MetadataCount(parts) = 1

\* three chunks were mapped to parts and the stream ended
C28_Witness ==
    /\ streamStatus = "ended"
    /\ Len(chunkLog) = 3
    /\ Len(events) >= 3
    /\ MetadataCount(events) = 1

\* a decoded completion with a choice was mapped to parts
C28_WitnessResponse ==
    /\ respStatus = "done"
    /\ Len(parts) >= 2
    /\ IsMetadata(parts[1])

\* the wire messages of the request built for the call, and the prompt messages
\* by role
WireMessages == Get(request).messages
WireOfRole(roles) == SelectSeq(WireMessages, LAMBDA m : m.role \in roles)
PromptOfRole(roles) == SelectSeq(CallPrompt, LAMBDA m : m.role \in roles)

PartsOfType(message, types) == SelectSeq(message.content, LAMBDA q : q.type \in types)
LocalCallsOf(message) ==
    SelectSeq(message.content, LAMBDA q : q.type = "tool-call" /\ ~q.providerExecuted)

\* ts[1], ..., ts[n] with a newline between neighbours
RECURSIVE LinesJoined(_, _)
LinesJoined(ts, n) ==
    IF n = 0 THEN ""
    ELSE IF n = 1 THEN ts[1].text
    ELSE LinesJoined(ts, n - 1) \o "\n" \o ts[n].text

TextJoined(message) ==
    LET ts == PartsOfType(message, {"text"}) IN LinesJoined(ts, Len(ts))

\* the assistant wire message the claim describes for an assistant prompt message
ExpectedAssistant(message) ==
    LET calls == LocalCallsOf(message)
    IN [role |-> "assistant",
        content |-> IF PartsOfType(message, {"text"}) = <<>> THEN Null
                    ELSE TextJoined(message),
        tool_calls |-> [i \in 1..Len(calls) |->
                           [id |-> calls[i].id, type |-> "function",
                            name |-> calls[i].name,
                            arguments |-> JSONStringify(calls[i].value)]],
        tool_call_id |-> ""]

\* C25 (as claimed): prepareMessages translates every assistant prompt message
\* into one assistant wire message whose content is the newline-join of its
\* text parts (null when it has none) and whose tool_calls holds exactly its
\* tool-call parts with providerExecuted false, in order.
C25_EveryAssistantMessage ==
    IsSome(request) =>
        LET wire == WireOfRole({"assistant"})
            asked == PromptOfRole({"assistant"})
        IN /\ Len(wire) = Len(asked)
           /\ \A i \in 1..Len(asked) : wire[i] = ExpectedAssistant(asked[i])

\* C25 (amended): every assistant prompt message with at least one text part
\* or one tool-call part with providerExecuted false is translated into one
\* such wire message, in prompt order; an assistant message with neither (only
\* reasoning or provider-executed tool calls) produces no wire message.
\* Provider-executed tool calls and reasoning parts never reach the wire.
HasWireContent(message) ==
    PartsOfType(message, {"text"}) # <<>> \/ LocalCallsOf(message) # <<>>

C25_AssistantWithContent ==
    IsSome(request) =>
        LET wire == WireOfRole({"assistant"})
            asked == SelectSeq(PromptOfRole({"assistant"}), HasWireContent)
        IN /\ Len(wire) = Len(asked)
           /\ \A i \in 1..Len(asked) : wire[i] = ExpectedAssistant(asked[i])

\* a request was built from a prompt with two assistant messages, one of which
\* holds two text parts, a local tool call and a provider-executed tool call
C25_Witness ==
    /\ IsSome(request)
    /\ \E i \in 1..Len(CallPrompt) :
          /\ CallPrompt[i].role = "assistant"
          /\ Len(PartsOfType(CallPrompt[i], {"text"})) = 2
          /\ Len(LocalCallsOf(CallPrompt[i])) = 1
          /\ Len(PartsOfType(CallPrompt[i], {"tool-call"})) = 2
    /\ Len(WireOfRole({"assistant"})) = 2

\* a request was built from a prompt whose assistant message holds only a
\* reasoning part and a provider-executed tool call
C25_WitnessDropped ==
    /\ IsSome(request)
    /\ \E i \in 1..Len(CallPrompt) :
          /\ CallPrompt[i].role = "assistant"
          /\ ~HasWireContent(CallPrompt[i])
    /\ WireOfRole({"assistant"}) = <<>>

\* C26: for a prompt without file parts, prepareMessages emits the wire
\* messages in prompt order: one per system message, one per user message with
\* its text parts joined by newline, one tool message per tool-result part
\* with that part's id as tool_call_id; none is reordered or dropped.
ExpectedOthers(message) ==
    CASE message.role = "system" ->
            <<[role |-> "system", content |-> message.text, tool_calls |-> <<>>,
               tool_call_id |-> ""]>>
      [] message.role = "user" ->
            <<[role |-> "user", content |-> TextJoined(message), tool_calls |-> <<>>,
               tool_call_id |-> ""]>>
      [] message.role = "tool" ->
            [i \in 1..Len(message.content) |->
                [role |-> "tool", content |-> JSONStringify(message.content[i].value),
                 tool_calls |-> <<>>, tool_call_id |-> message.content[i].id]]
      [] OTHER -> <<>>

\* the roles of the wire messages a prompt message stands for
ExpectedRoles(message) ==
    CASE message.role = "tool" -> [i \in 1..Len(message.content) |-> "tool"]
      [] message.role = "assistant" ->
            IF HasWireContent(message) THEN <<"assistant">> ELSE <<>>
      [] OTHER -> <<message.role>>

C26_OthersInPromptOrder ==
    LET others == {"system", "user", "tool"}
    IN /\ IsSome(request) =>
            /\ WireOfRole(others) =
                  Flatten([i \in 1..Len(CallPrompt) |-> ExpectedOthers(CallPrompt[i])])
            /\ [i \in 1..Len(WireMessages) |-> WireMessages[i].role] =
                  Flatten([i \in 1..Len(CallPrompt) |-> ExpectedRoles(CallPrompt[i])])
       /\ (RequestBuildingOver /\ ~PromptHasUserFile /\ callError # "MalformedInput") =>
            IsSome(request)

\* a request was built from a prompt with a system message, a user message of
\* two text parts, and a later user message
C26_Witness ==
    /\ IsSome(request)
    /\ CallPrompt[1].role = "system"
    /\ Len(PartsOfType(CallPrompt[2], {"text"})) = 2
    /\ Len(WireOfRole({"user"})) = 2

\* a request was built from a prompt whose tool message holds two results and
\* whose last user message has no part at all
C26_WitnessTool ==
    /\ IsSome(request)
    /\ Len(WireOfRole({"tool"})) = 2
    /\ WireMessages[Len(WireMessages)].content = ""

\* the names of the wire tools of the built request, and what the claim expects
\* of tools and tool_choice for the call's policy
WireToolNames ==
    LET ts == Get(Get(request).tools) IN [i \in 1..Len(ts) |-> ts[i].name]

ToolSetNames == [i \in 1..Len(CallTools) |-> CallTools[i].name]

PolicyTranslated ==
    /\ CallToolChoice.kind = "oneOf" =>
          /\ IsSome(Get(request).tools)
          /\ WireToolNames =
                SelectSeq(ToolSetNames, LAMBDA n : n \in CallToolChoice.oneOf)
          /\ \A i \in 1..Len(WireToolNames) :
                Get(Get(request).tools)[i].type = "function"
          /\ CallToolChoice.mode = "required" =>
                Get(request).tool_choice = [kind |-> "string", value |-> "required"]
    /\ CallToolChoice.kind = "tool" =>
          Get(request).tool_choice = [kind |-> "function", value |-> CallToolChoice.tool]
    /\ CallToolChoice.kind \in {"none", "required"} =>
          Get(request).tool_choice = [kind |-> "string", value |-> CallToolChoice.kind]

\* C27 (as claimed): under a restrict-to-subset policy the wire tools list
\* holds exactly the tools of the tool set named in the subset, in tool-set
\* order, and tool_choice is required when the policy mode is required; a
\* force-specific-tool policy yields {type: function, function: {name}}; none
\* and required are passed through unchanged.
C27_PolicyTranslated == IsSome(request) => PolicyTranslated

\* C27 (amended): the same, for a tool set that is not empty; with an empty
\* tool set the request carries neither tools nor tool_choice, whatever the
\* policy.
C27_PolicyTranslatedWithTools ==
    IsSome(request) =>
        IF Len(CallTools) > 0
        THEN PolicyTranslated
        ELSE /\ Get(request).tools = None
             /\ Get(request).tool_choice = [kind |-> "undefined", value |-> ""]

\* a request was built under a required subset policy that keeps the second
\* of the two tools of the tool set
C27_Witness ==
    /\ IsSome(request)
    /\ Len(CallTools) = 2
    /\ CallToolChoice.kind = "oneOf"
    /\ CallToolChoice.mode = "required"
    /\ WireToolNames = <<"g">>

\* a request was built under a force-specific-tool policy
C27_WitnessTool ==
    /\ IsSome(request)
    /\ Len(CallTools) = 2
    /\ CallToolChoice.kind = "tool"
    /\ Get(request).tool_choice.kind = "function"

\* a request was built for an empty tool set under the policy required
C27_WitnessNoTools ==
    /\ IsSome(request)
    /\ CallTools = <<>>
    /\ CallToolChoice.kind = "required"

\* C29: MCP servers configured for the model reach the wire: when the call
\* names no MCP server the request carries the mcp_servers value of the model
\* Config, and when it names servers the field lists them in the given order,
\* a url server by its url and a marketplace server by its id.
ConfiguredMcpServers ==
    IF contextOptions.mcp_servers # None
    THEN contextOptions.mcp_servers
    ELSE modelOptions.mcp_servers

CallMcpServers == providerOptions.mcpServers

C29_McpServersReachTheWire ==
    IsSome(request) =>
        IF CallMcpServers = <<>>
        THEN Get(request).mcp_servers = ConfiguredMcpServers
        ELSE /\ Get(request).mcp_servers # None
             /\ LET wire == Get(Get(request).mcp_servers)
                IN /\ Len(wire) = Len(CallMcpServers)
                   /\ \A i \in 1..Len(wire) :
                         /\ CallMcpServers[i].tag = "url" =>
                               wire[i] = CallMcpServers[i].url
                         /\ CallMcpServers[i].tag = "marketplace" =>
                               wire[i] = CallMcpServers[i].id

\* C31: every top-level call through the ReAct layer invokes the underlying
\* single-turn capability at least once, for every configured maxTurns value.
C31_AtLeastOneInvocation ==
    (op \in {"generateText", "generateObject", "streamText"} /\ pc = "done") =>
        Calls >= 1

\* C32: for every tool-call delta of a stream that carries a
\* function.arguments fragment, a tool-params-delta event with that fragment is
\* emitted, whether or not the delta or an earlier delta for its index carried
\* an id. (The parts of a chunk whose tool-call arguments are rejected are
\* never emitted; such streams are left out.)
FragmentsReceived ==
    LET ds == SelectSeq(ReceivedDeltas,
                        LAMBDA d : IsSome(d.arguments) /\ Get(d.arguments) # <<>>)
    IN [i \in 1..Len(ds) |-> Get(ds[i].arguments)]

FragmentsEmitted ==
    LET es == SelectSeq(events, LAMBDA e : e.type = "tool-params-delta")
    IN [i \in 1..Len(es) |-> es[i].value]

C32_EveryFragmentEmitted ==
    streamCause # "unsafeSecureJsonParse" => FragmentsEmitted = FragmentsReceived

\* positions of the events of one type that carry the id
EventPositions(type, id) ==
    {i \in 1..Len(events) : events[i].type = type /\ events[i].id = id}

\* every tool-params-start{id} is followed by exactly one tool-params-end{id},
\* itself immediately followed by tool-call{id}, all before the finish part
\* that closes the stream; no index has more than one tool-params-start; the
\* accumulator map is empty
LifecycleBalanced ==
    /\ events # <<>>
    /\ events[Len(events)].type = "finish"
    /\ FinishCount(events) = 1
    /\ \A i \in 1..Len(events) :
          events[i].type = "tool-params-start" =>
              LET ends == EventPositions("tool-params-end", events[i].id)
              IN /\ Cardinality(ends) = 1
                 /\ \A j \in ends :
                       /\ i < j
                       /\ j + 1 < Len(events)
                       /\ events[j + 1].type = "tool-call"
                       /\ events[j + 1].id = events[i].id
    /\ \A index \in RegisteredIndexes :
          Cardinality(UNION {EventPositions("tool-params-start", id) :
                                id \in RegisteredIds(index)}) <= 1
    /\ activeToolCalls = <<>>

C34_EventuallyDone ==
    /\ <>(pc = "done")
    /\ [](pc = "done" => Calls <= maxTurns)

\* a streamText call is done after using its whole budget of three turns
C34_Witness ==
    /\ op = "streamText"
    /\ pc = "done"
    /\ maxTurns = 3
    /\ Calls = 3

\* C35: in ReAct.streamText, when a turn's underlying stream completes without
\* emitting any finish part, the loop opens no further turn and the history is
\* left unchanged: a missing finish is treated as a terminating turn.
NoFinishTurn(i) ==
    /\ FinishPartsOf(ContentOf(i)) = <<>>
    /\ ErrorOf(i) = "none"
    /\ abortedAt # <<i>>

C35_MissingFinishTerminates ==
    op = "streamText" =>
        \A i \in 1..Calls :
            NoFinishTurn(i) =>
                /\ i = Calls
                /\ pc \in {"streaming", "done"}
                /\ history = PromptOf(i)

\* the second turn of a streamText call streamed its only part, a text part,
\* and the call is done
C35_Witness ==
    /\ op = "streamText"
    /\ pc = "done"
    /\ Calls = 2
    /\ maxTurns = 3
    /\ NoFinishTurn(2)
    /\ accumulatedParts = ContentOf(2)
    /\ accumulatedParts # <<>>

\* C36: whenever the chunk stream of a turn is truncated because some choice
\* of a chunk has a non-null finish_reason, the events emitted for that turn
\* end with exactly one finish part, also when the finishing choice is not the
\* first choice of the chunk.
C36_TruncationEmitsFinish ==
    (EndsWithFinishReason /\ streamStatus = "ended") =>
        /\ events # <<>>
        /\ events[Len(events)].type = "finish"
        /\ FinishCount(events) = 1

\* C37: for a prompt in which every tool-result part has the id of a tool-call
\* part of an earlier assistant message, every tool wire message produced by
\* prepareMessages has a tool_call_id that occurs in the tool_calls of an
\* earlier assistant wire message, also when some of those tool calls are
\* provider-executed.
ResultsAnswerCalls ==
    \A i \in 1..Len(CallPrompt) :
        CallPrompt[i].role = "tool" =>
            \A j \in 1..Len(CallPrompt[i].content) :
                \E k \in 1..(i - 1) :
                    /\ CallPrompt[k].role = "assistant"
                    /\ \E l \in 1..Len(CallPrompt[k].content) :
                          /\ CallPrompt[k].content[l].type = "tool-call"
                          /\ CallPrompt[k].content[l].id = CallPrompt[i].content[j].id

C37_NoDanglingToolMessage ==
    (IsSome(request) /\ ResultsAnswerCalls) =>
        \A j \in 1..Len(WireMessages) :
            WireMessages[j].role = "tool" =>
                \E i \in 1..(j - 1) :
                    /\ WireMessages[i].role = "assistant"
                    /\ \E l \in 1..Len(WireMessages[i].tool_calls) :
                          WireMessages[i].tool_calls[l].id = WireMessages[j].tool_call_id

\* C38: ReAct.streamObject never loops: it invokes the underlying streamObject
\* exactly once, with the caller's options, and forwards its events unchanged,
\* for every finish reason and every maxTurns value.
C38_StreamObjectDelegates ==
    op = "streamObject" =>
        /\ Calls <= 1
        /\ pc # "loop" => Calls = 1
        /\ Calls = 1 =>
              /\ PromptOf(1) = prompt
              /\ pc = "forwarding" => output \o innerStream = ContentOf(1)
              /\ pc \in {"done", "failed"} => output = ContentOf(1)
        /\ turns = 0
        /\ history = prompt

\* with maxTurns 0, a stream that finished with tool-calls was forwarded whole
C38_Witness ==
    /\ op = "streamObject"
    /\ pc = "done"
    /\ maxTurns = 0
    /\ Calls = 1
    /\ FinishReasonOf(output) = "tool-calls"
    /\ Len(output) = 3

\* C39: the resolveFinishReason used by DedalusLanguageModel and the internal
\* resolveFinishReason return the same finish reason for every pair (wire
\* finish reason, hasToolCalls); in particular both return tool-calls whenever
\* hasToolCalls is true.
C39_SameFinishReason ==
    (resolved # "pending" /\ resolvedInternal # "pending") =>
        /\ resolved = resolvedInternal
        /\ wireHasToolCalls => resolved = "tool-calls" /\ resolvedInternal = "tool-calls"

====
